---- MODULE Spec2Model ----
(***************************************************************************)
(* Move resolver of the parabox engine (src/src/engine/simulation.rs) on   *)
(* the world model of src/src/engine/game.rs.  The resolver's mutual       *)
(* recursion is unfolded into an explicit call stack (frames): one action  *)
(* per handler, a frame per active call, ret for the value just returned.  *)
(***************************************************************************)
EXTENDS Integers, Sequences, FiniteSets, TLC

VARIABLES
    cells,            \* Game.cells: cell id i is cells[i + 1]
    goals,            \* Game.goals
    block_map,        \* Game.block_map: block_no -> cell id
    player_ids,       \* Game.player_ids
    config,           \* Game.config
    player_index,     \* Simulator.player_index
    move_stack,       \* Simulator.move_stack
    move_index,       \* Simulator.move_index
    transfer_cache,   \* Simulator.transfer_cache
    transfer_stack,   \* Simulator.transfer_stack
    frames,           \* the call stack of the resolver
    ret,              \* value returned by the call that just ended
    status,           \* "idle" | "busy" | "panic"
    direction,        \* the direction given to play
    turns,            \* number of play calls so far
    pre,              \* world when play called try_move for the current player,
                      \* and the cells when play was called
    log,              \* what the current player's resolution went through
    last_call,        \* the call of try_move by play before the current one
    geom              \* a transfer point carried out of a block side and in again

vars == <<cells, goals, block_map, player_ids, config, player_index, move_stack,
          move_index, transfer_cache, transfer_stack, frames, ret, status,
          direction, turns, pre, log, last_call, geom>>

world == <<cells, goals, block_map, player_ids, config>>
sim == <<player_index, move_stack, move_index, transfer_cache, transfer_stack>>

----------------------------------------------------------------------------
(* Bounds of the model *)

MaxTurns == 4
MaxDepth == 70

----------------------------------------------------------------------------
(* utility.rs and the constants of game.rs / simulation.rs *)

ROOT == -1
SPACE_SIZE == 3
INF_ENTER_SIZE == 5

Directions == {"Up", "Down", "Left", "Right"}

None == <<>>
Some(x) == <<x>>

Pos(x, y) == <<x, y>>
GlobalPos(b, p) == [block_id |-> b, pos |-> p]
SPACE_CENTER == Pos(SPACE_SIZE, SPACE_SIZE)

go(pos, d) ==
    CASE d = "Up" -> Pos(pos[1], pos[2] + 1)
      [] d = "Down" -> Pos(pos[1], pos[2] - 1)
      [] d = "Left" -> Pos(pos[1] - 1, pos[2])
      [] d = "Right" -> Pos(pos[1] + 1, pos[2])

opposite(d) ==
    CASE d = "Up" -> "Down"
      [] d = "Down" -> "Up"
      [] d = "Left" -> "Right"
      [] d = "Right" -> "Left"

\* the Left <-> Right reflection done at a flipping portal or cell
flip_direction(d) ==
    CASE d = "Left" -> "Right"
      [] d = "Right" -> "Left"
      [] OTHER -> d

Vertical(d) == d \in {"Up", "Down"}

----------------------------------------------------------------------------
(* TransferPoint = num_rational::Rational32, kept reduced: <<numer, denom>> *)

\* Op applied to the value of e, e being computed once
With(e, Op(_)) == CHOOSE r \in {Op(x) : x \in {e}} : TRUE

Abs(n) == IF n < 0 THEN -n ELSE n

RECURSIVE Gcd(_, _)
Gcd(a, b) == IF b = 0 THEN a ELSE With(a % b, LAMBDA r : Gcd(b, r))

\* Ratio::new reduces the fraction
Ratio(n, d) ==
    With(Gcd(Abs(n), d),
         LAMBDA g : IF g = 0 THEN <<0, 1>> ELSE <<n \div g, d \div g>>)

MIDDLE_POINT == <<1, 2>>
ONE_POINT == <<1, 1>>

RatAddInt(p, k) == Ratio(p[1] + k * p[2], p[2])
RatDivInt(p, k) == Ratio(p[1], p[2] * k)
RatMulInt(p, k) == Ratio(p[1] * k, p[2])
RatSub(p, q) == Ratio(p[1] * q[2] - q[1] * p[2], p[2] * q[2])
\* Ratio::to_integer truncates toward zero
RatToInteger(p) == IF p[1] >= 0 THEN p[1] \div p[2] ELSE -((-p[1]) \div p[2])

\* the exit point of try_exit
ExitPoint(exit_point, d, pos, block) ==
    IF Vertical(d) THEN RatDivInt(RatAddInt(exit_point, pos[1]), block.width)
    ELSE RatDivInt(RatAddInt(exit_point, pos[2]), block.height)

\* variant of enter_coord: the coordinate is not taken off the scaled point
enter_coord_scaled(enter_point, side_length) ==
    LET scaled == RatMulInt(enter_point, side_length)
    IN  <<RatToInteger(scaled), scaled>>

\* the closure enter_coord of try_enter: <<coord, residual point>>
enter_coord(enter_point, side_length) ==
    LET scaled == RatMulInt(enter_point, side_length)
        coord == RatToInteger(scaled)
    IN  <<coord, RatAddInt(scaled, -coord)>>

----------------------------------------------------------------------------
(* Cells (game.rs: Wall, Block, Reference) as records over one field set *)

Wall(id, b, x, y, possessable) ==
    [kind |-> "Wall", id |-> id, gpos |-> GlobalPos(b, Pos(x, y)),
     possessable |-> possessable, fliph |-> FALSE,
     block_no |-> ROOT, width |-> 0, height |-> 0, filled |-> FALSE,
     space |-> FALSE, locked |-> FALSE, inf_enter |-> None,
     target_no |-> ROOT, exit |-> FALSE, inf_exit |-> None]

Block(id, b, x, y, no, w, h, filled, possessable, fliph) ==
    [kind |-> "Block", id |-> id, gpos |-> GlobalPos(b, Pos(x, y)),
     possessable |-> possessable, fliph |-> fliph,
     block_no |-> no, width |-> w, height |-> h, filled |-> filled,
     space |-> FALSE, locked |-> FALSE, inf_enter |-> None,
     target_no |-> ROOT, exit |-> FALSE, inf_exit |-> None]

Reference(id, b, x, y, target_no, exit, inf_exit, possessable, fliph) ==
    [kind |-> "Reference", id |-> id, gpos |-> GlobalPos(b, Pos(x, y)),
     possessable |-> possessable, fliph |-> fliph,
     block_no |-> ROOT, width |-> 0, height |-> 0, filled |-> FALSE,
     space |-> FALSE, locked |-> FALSE, inf_enter |-> None,
     target_no |-> target_no, exit |-> exit, inf_exit |-> inf_exit]

Goal(b, x, y, player) == [gpos |-> GlobalPos(b, Pos(x, y)), player |-> player]

Cell(cs, id) == cs[id + 1]
ValidId(cs, id) == id >= 0 /\ id < Len(cs)
CellIds(cs) == 0 .. (Len(cs) - 1)

is_wall(c) == c.kind = "Wall"
is_block(c) == c.kind = "Block"
is_reference(c) == c.kind = "Reference"

\* Cell::fliph: a wall reports false
fliph(c) == IF is_wall(c) THEN FALSE ELSE c.fliph

in_bounds(block, pos) ==
    pos[1] >= 0 /\ pos[2] >= 0 /\ pos[1] < block.width /\ pos[2] < block.height

\* variant of Block::can_enter: a locked block may not be entered either
block_can_enter_unlocked(block) == ~block.filled /\ ~block.locked

block_can_enter(block) == ~block.filled
block_can_exit(block) == ~block.space
reference_can_enter(reference) == reference.inf_exit = None

Min(S) == CHOOSE x \in S : \A y \in S : x <= y
Max(S) == CHOOSE x \in S : \A y \in S : x >= y

\* Game::cell_at: the first cell with that gpos
cell_at(cs, gpos) ==
    LET found == {i \in CellIds(cs) : Cell(cs, i).gpos = gpos}
    IN  IF found = {} THEN None ELSE Some(Min(found))

\* Game::is_space: the container is a space backdrop
is_space(cs, block_id) ==
    /\ ValidId(cs, block_id)
    /\ is_block(Cell(cs, block_id))
    /\ Cell(cs, block_id).space

allocate_block_no(cs) ==
    LET nos == {Cell(cs, i).block_no + 1 : i \in {j \in CellIds(cs) : is_block(Cell(cs, j))}}
    IN  Max(nos \cup {0})

add_space(cs) ==
    Append(cs, [Block(Len(cs), ROOT, 0, 0, allocate_block_no(cs),
                      2 * SPACE_SIZE + 1, 2 * SPACE_SIZE + 1, FALSE, FALSE, FALSE)
                EXCEPT !.space = TRUE])

block_by_no(cs, bm, no) ==
    IF no \in DOMAIN bm /\ is_block(Cell(cs, bm[no])) THEN Some(bm[no]) ELSE None

exit_id_for(cs, block) ==
    LET refs == {i \in CellIds(cs) :
                    /\ is_reference(Cell(cs, i))
                    /\ Cell(cs, i).exit
                    /\ Cell(cs, i).target_no = block.block_no}
    IN  IF ~block_can_exit(block) THEN None
        ELSE IF refs # {} THEN Some(Min(refs))
        ELSE IF block.gpos.block_id # ROOT THEN Some(block.id)
        ELSE None

\* variant of inf_exit_id_for: an existing reference is never found
inf_exit_id_for_blind(cs, no, degree) == None

\* Game::inf_exit_id_for
inf_exit_id_for(cs, no, degree) ==
    LET refs == {i \in CellIds(cs) :
                    /\ is_reference(Cell(cs, i))
                    /\ Cell(cs, i).target_no = no
                    /\ Cell(cs, i).inf_exit = Some(degree)}
    IN  IF refs = {} THEN None ELSE Some(Min(refs))

inf_enter_id_for(cs, block, degree) ==
    LET blocks == {i \in CellIds(cs) :
                    /\ is_block(Cell(cs, i))
                    /\ Cell(cs, i).inf_enter = Some(<<block.block_no, degree>>)}
    IN  IF blocks = {} THEN None ELSE Some(Min(blocks))

\* variant of add_inf_exit_for: the new reference is an exit of the block
add_inf_exit_for_exit(cs, no, degree) ==
    LET cs1 == add_space(cs)
    IN  Append(cs1, Reference(Len(cs1), Len(cs), SPACE_CENTER[1], SPACE_CENTER[2],
                              no, TRUE, Some(degree), FALSE, FALSE))

\* variant of add_inf_exit_for: the reference targets its own backdrop
add_inf_exit_for_backdrop(cs, no, degree) ==
    LET cs1 == add_space(cs)
    IN  Append(cs1, Reference(Len(cs1), Len(cs), SPACE_CENTER[1], SPACE_CENTER[2],
                              Cell(cs1, Len(cs)).block_no, FALSE, Some(degree),
                              FALSE, FALSE))

\* the new reference is the last cell, its backdrop the one before it
add_inf_exit_for(cs, no, degree) ==
    LET cs1 == add_space(cs)
    IN  Append(cs1, Reference(Len(cs1), Len(cs), SPACE_CENTER[1], SPACE_CENTER[2],
                              no, FALSE, Some(degree), FALSE, FALSE))

\* variant of add_inf_enter_for: the new block has the side of a space's half
add_inf_enter_for_small(cs, no, degree) ==
    LET cs1 == add_space(cs)
    IN  Append(cs1, [Block(Len(cs1), Len(cs), SPACE_CENTER[1], SPACE_CENTER[2],
                           allocate_block_no(cs1), SPACE_SIZE, SPACE_SIZE,
                           FALSE, FALSE, FALSE)
                     EXCEPT !.locked = TRUE, !.inf_enter = Some(<<no, degree>>)])

\* the new block is the last cell; the caller has checked block_by_no(no)
add_inf_enter_for(cs, no, degree) ==
    LET cs1 == add_space(cs)
    IN  Append(cs1, [Block(Len(cs1), Len(cs), SPACE_CENTER[1], SPACE_CENTER[2],
                           allocate_block_no(cs1), INF_ENTER_SIZE, INF_ENTER_SIZE,
                           FALSE, FALSE, FALSE)
                     EXCEPT !.locked = TRUE, !.inf_enter = Some(<<no, degree>>)])

\* variant of won: the goal list is not asked to be non-empty
won_vacuous(cs, gs, players) ==
    \A k \in 1 .. Len(gs) :
        /\ cell_at(cs, gs[k].gpos) # None
        /\ (\E j \in 1 .. Len(players) : players[j] = cell_at(cs, gs[k].gpos)[1])
              = gs[k].player

\* Game::won
won(cs, gs, players) ==
    /\ \A k \in 1 .. Len(gs) :
          /\ cell_at(cs, gs[k].gpos) # None
          /\ (\E j \in 1 .. Len(players) : players[j] = cell_at(cs, gs[k].gpos)[1])
                = gs[k].player
    /\ gs # <<>>

----------------------------------------------------------------------------
(* simulation.rs: MoveState, TransferState, TransferCache *)

MoveState(cell, d) ==
    [cell_id |-> cell.id, direction |-> d, gpos |-> cell.gpos, fliph |-> fliph(cell)]

\* MoveState::update on the top record (move_stack.last_mut().unwrap().update(..))
update_top(ms, other) ==
    [ms EXCEPT ![Len(ms)].gpos = other.gpos, ![Len(ms)].fliph = other.fliph]

\* variant of MoveState::apply: the cell that has moved is filled
apply_fills(cs, state) ==
    [cs EXCEPT ![state.cell_id + 1].gpos = state.gpos,
               ![state.cell_id + 1].fliph = state.fliph,
               ![state.cell_id + 1].filled = TRUE]

\* MoveState::apply
apply(cs, state) ==
    [cs EXCEPT ![state.cell_id + 1].gpos = state.gpos,
               ![state.cell_id + 1].fliph = state.fliph]

RECURSIVE apply_all(_, _)
apply_all(cs, states) ==
    IF states = <<>> THEN cs
    ELSE apply_all(apply(cs, Head(states)), Tail(states))

\* variant of commit_slice: the last record alone
commit_slice_last(ms, mi) == SubSeq(ms, Len(ms), Len(ms))

\* the slice move_stack[move_index..] applied by play
commit_slice(ms, mi) == SubSeq(ms, mi + 1, Len(ms))

TransferState(no, d, point, fl) ==
    [block_no |-> no, direction |-> d, point |-> point, degree |-> 0, fliph |-> fl]

exit_key(st) == <<st.block_no, st.direction>>
enter_key(st) == <<st.block_no, st.direction, st.point>>

\* TransferCache: exit and enter; exit_hits is kept with it for the properties,
\* the exit keys of the hits made while this cache was the current one
EmptyCache == [exit |-> <<>>, enter |-> <<>>, exit_hits |-> <<>>]

\* TransferCache::try_push_state: the position of the first entry with the key
exit_position(stack, state) ==
    LET found == {i \in 1 .. Len(stack) : exit_key(stack[i]) = exit_key(state)}
    IN  IF found = {} THEN None ELSE Some(Min(found))

enter_position(stack, state) ==
    LET found == {i \in 1 .. Len(stack) : enter_key(stack[i]) = enter_key(state)}
    IN  IF found = {} THEN None ELSE Some(Min(found))

\* variant of check_cycle: a cell already on the move stack is never recognised
check_cycle_never(ms, mi, cell_id, d) == [tag |-> "None", i |-> 0]

\* variant of check_cycle: a record below move_index closes a cycle as well
check_cycle_below(ms, mi, cell_id, d) ==
    LET found == {i \in 1 .. Len(ms) : ms[i].cell_id = cell_id}
        i == Min(found) - 1
    IN  IF found = {} THEN [tag |-> "None", i |-> 0]
        ELSE IF ms[i + 1].direction = d THEN [tag |-> "Ok", i |-> i]
        ELSE [tag |-> "Err", i |-> i]

\* Simulator::check_cycle: i is the 0-based index of the record
check_cycle(ms, mi, cell_id, d) ==
    LET found == {i \in 1 .. Len(ms) : ms[i].cell_id = cell_id}
        i == Min(found) - 1
    IN  IF found = {} THEN [tag |-> "None", i |-> 0]
        ELSE IF i >= mi /\ ms[i + 1].direction = d THEN [tag |-> "Ok", i |-> i]
        ELSE [tag |-> "Err", i |-> i]

----------------------------------------------------------------------------
(* The resolver as a machine: s is the record of everything a step may     *)
(* change, a frame is one active call                                      *)

NoRet == "-"
T == "T"
F == "F"

NoState == [cell_id |-> ROOT, direction |-> "Up",
            gpos |-> GlobalPos(ROOT, Pos(0, 0)), fliph |-> FALSE]

Frame(fn) ==
    [fn |-> fn, pc |-> "start", cell_id |-> ROOT, direction |-> "Up",
     cur |-> NoState, point |-> MIDDLE_POINT, target |-> ROOT, k |-> 0,
     exit_id |-> ROOT, old_move_index |-> 0]

EmptyLog ==
    [result |-> NoRet, inf_exit |-> FALSE, inf_enter |-> FALSE, made |-> 0,
     possessed |-> FALSE, target |-> ROOT, cycle |-> FALSE, shed |-> FALSE, inner_push |-> FALSE,
     eat |-> FALSE, enter |-> FALSE, push |-> FALSE, kept |-> 0, applied |-> 0,
     blocked_at |-> 0, enter_ok |-> FALSE, eat_ok |-> FALSE, shed_ok |-> FALSE,
     refused |-> ROOT, eater |-> ROOT, eaten |-> ROOT,
     again_ok |-> ROOT, again_err |-> ROOT, enter_skipped |-> FALSE,
     restored |-> FALSE, inner_at |-> ROOT, bases |-> <<>>]

\* no point is being carried: the value of geom while the resolver is modelled
NoGeom ==
    [stage |-> "none", direction |-> "Up", width |-> 1, height |-> 1,
     pos |-> Pos(0, 0), p |-> MIDDLE_POINT, point |-> MIDDLE_POINT,
     landed |-> Pos(0, 0)]

S ==
    [cells |-> cells, player_ids |-> player_ids, player_index |-> player_index,
     move_stack |-> move_stack, move_index |-> move_index,
     transfer_cache |-> transfer_cache, transfer_stack |-> transfer_stack,
     frames |-> frames, ret |-> ret, status |-> status, log |-> log]

\* the state record s, computed once, becomes the next state
SetVars(s) ==
    \E r \in {s} :
        /\ cells' = r.cells
        /\ player_ids' = r.player_ids
        /\ player_index' = r.player_index
        /\ move_stack' = r.move_stack
        /\ move_index' = r.move_index
        /\ transfer_cache' = r.transfer_cache
        /\ transfer_stack' = r.transfer_stack
        /\ frames' = r.frames
        /\ ret' = r.ret
        /\ status' = r.status
        /\ log' = r.log
        /\ UNCHANGED <<goals, block_map, config, direction, turns, pre, geom>>

Set(s) == SetVars(s) /\ UNCHANGED last_call

top(s) == s.frames[Len(s.frames)]
Front(q) == SubSeq(q, 1, Len(q) - 1)

\* log.bases keeps, for each call under play, the length the move stack had
\* when the call began
return(s, v) ==
    [s EXCEPT !.frames = Front(s.frames), !.ret = v, !.log.bases = Front(@)]

\* the caller waits at pc for the callee's result
call(s, pc, callee) ==
    [s EXCEPT !.frames = Append([s.frames EXCEPT ![Len(s.frames)].pc = pc], callee),
              !.ret = NoRet,
              !.log.bases = Append(@, Len(s.move_stack))]

\* `return callee(..)`: the caller hands the callee's result on
tail_call(s, callee) == call(s, "tail", callee)

\* an unwrap on None, an index out of range, an unreachable! branch
panic(s) == [s EXCEPT !.status = "panic"]

\* `return callee(..)` has its value: the log keeps a true handed on by
\* try_enter, and by try_exit for its shed move (the frame has its exit by then)
return_tail(s) ==
    LET f == top(s)
        ok == s.ret = T
    IN  return([s EXCEPT !.log.enter_ok = @ \/ (ok /\ f.fn = "try_enter"),
                         !.log.shed_ok = @ \/ (ok /\ f.fn = "try_exit"
                                                   /\ f.exit_id # ROOT)],
               s.ret)

try_move_frame(cell_id, d) ==
    [Frame("try_move") EXCEPT !.cell_id = cell_id, !.direction = d]
try_exit_frame(current, point) ==
    [Frame("try_exit") EXCEPT !.cur = current, !.point = point]
try_interact_pos_frame(current, point) ==
    [Frame("try_interact_pos") EXCEPT !.cur = current, !.point = point]
try_interact_frame(current, target_id, point) ==
    [Frame("try_interact") EXCEPT !.cur = current, !.target = target_id, !.point = point]
try_push_frame(current, target_id) ==
    [Frame("try_push") EXCEPT !.cur = current, !.target = target_id]
try_enter_frame(current, target_id, point) ==
    [Frame("try_enter") EXCEPT !.cur = current, !.target = target_id, !.point = point]
try_eat_frame(current, target_id) ==
    [Frame("try_eat") EXCEPT !.cur = current, !.target = target_id]
try_possess_frame(source_id, target_id) ==
    [Frame("try_possess") EXCEPT !.cell_id = source_id, !.target = target_id]

\* variant of push_move: the new mover goes on with the cache it found
push_move_keeps_cache(s, cell_id, d) ==
    [s EXCEPT !.move_stack = Append(s.move_stack, MoveState(Cell(s.cells, cell_id), d)),
              !.transfer_stack = Append(s.transfer_stack, s.transfer_cache)]

\* Simulator::push_move
push_move(s, cell_id, d) ==
    [s EXCEPT !.move_stack = Append(s.move_stack, MoveState(Cell(s.cells, cell_id), d)),
              !.transfer_stack = Append(s.transfer_stack, s.transfer_cache),
              !.transfer_cache = EmptyCache]

\* Simulator::pop_move: transfer_stack.pop().unwrap(); the log keeps whether
\* a cache with entries has come back
pop_move(s) ==
    IF s.transfer_stack = <<>> THEN panic(s)
    ELSE [s EXCEPT !.move_stack = Front(s.move_stack),
                   !.transfer_cache = s.transfer_stack[Len(s.transfer_stack)],
                   !.transfer_stack = Front(s.transfer_stack),
                   !.log.restored =
                       @ \/ s.transfer_stack[Len(s.transfer_stack)].exit # <<>>
                         \/ s.transfer_stack[Len(s.transfer_stack)].enter # <<>>]

----------------------------------------------------------------------------
(* The handlers of Simulator, each a function of s at the frame on top *)

\* variant of try_move: a closed cycle leaves move_index where it was
try_move_keeps_index(s) ==
    LET f == top(s)
        cyc == check_cycle(s.move_stack, s.move_index, f.cell_id, f.direction)
        pushed == push_move(s, f.cell_id, f.direction)
        current == pushed.move_stack[Len(pushed.move_stack)]
    IN  CASE cyc.tag = "Ok" ->
               return([s EXCEPT !.log.cycle = TRUE, !.log.again_ok = cyc.i], T)
          [] cyc.tag = "Err" -> return([s EXCEPT !.log.again_err = cyc.i], F)
          [] OTHER ->
               IF current.gpos.block_id # ROOT
               THEN call(pushed, "after_exit", try_exit_frame(current, MIDDLE_POINT))
               ELSE [pushed EXCEPT !.frames[Len(s.frames)].pc = "after_exit", !.ret = F]

\* try_move, lines 203-215: the cycle check, then push_move and the root test;
\* the log keeps the index of the record met again
try_move(s) ==
    LET f == top(s)
        cyc == check_cycle(s.move_stack, s.move_index, f.cell_id, f.direction)
        pushed == push_move(s, f.cell_id, f.direction)
        current == pushed.move_stack[Len(pushed.move_stack)]
    IN  CASE cyc.tag = "Ok" ->
               return([s EXCEPT !.move_index = cyc.i, !.log.cycle = TRUE,
                                !.log.again_ok = cyc.i], T)
          [] cyc.tag = "Err" -> return([s EXCEPT !.log.again_err = cyc.i], F)
          [] OTHER ->
               IF current.gpos.block_id # ROOT
               THEN call(pushed, "after_exit", try_exit_frame(current, MIDDLE_POINT))
               ELSE [pushed EXCEPT !.frames[Len(s.frames)].pc = "after_exit", !.ret = F]

\* variant of try_move: a failed try_exit is reported as a move
try_move_after_lenient(s) == return(s, T)

\* try_move, lines 215-220: the result of try_exit
try_move_after(s) ==
    IF s.ret = T THEN return(s, T) ELSE return(pop_move(s), F)

\* variant of exit_transfer: on a hit the point and fliph just computed go on
exit_transfer_fresh(s, context_no, current, exit_id, exit_point) ==
    LET state == TransferState(context_no, current.direction, exit_point, current.fliph)
        hit == exit_position(s.transfer_cache.exit, state)
        entry == s.transfer_cache.exit[hit[1]]
        found == inf_exit_id_for(s.cells, context_no, entry.degree)
        cells1 == IF found = None
                  THEN add_inf_exit_for(s.cells, context_no, entry.degree)
                  ELSE s.cells
    IN  IF hit = None
        THEN [cells |-> s.cells,
              cache |-> Append(s.transfer_cache.exit, state),
              exit_id |-> exit_id, point |-> exit_point, fliph |-> current.fliph,
              hit |-> FALSE, made |-> 0]
        ELSE [cells |-> cells1,
              cache |-> [SubSeq(s.transfer_cache.exit, 1, hit[1])
                            EXCEPT ![hit[1]].degree = entry.degree + 1],
              exit_id |-> IF found = None THEN Len(cells1) - 1 ELSE found[1],
              point |-> exit_point, fliph |-> current.fliph,
              hit |-> TRUE, made |-> Len(cells1) - Len(s.cells)]

\* try_exit, lines 255-281: the exit cache and the redirection to an inf exit.
\* Gives [cells, cache, exit_id, point, fliph, hit, made].
exit_transfer(s, context_no, current, exit_id, exit_point) ==
    LET state == TransferState(context_no, current.direction, exit_point, current.fliph)
        hit == exit_position(s.transfer_cache.exit, state)
        entry == s.transfer_cache.exit[hit[1]]
        found == inf_exit_id_for(s.cells, context_no, entry.degree)
        cells1 == IF found = None
                  THEN add_inf_exit_for(s.cells, context_no, entry.degree)
                  ELSE s.cells
    IN  IF hit = None
        THEN [cells |-> s.cells,
              cache |-> Append(s.transfer_cache.exit, state),
              exit_id |-> exit_id, point |-> exit_point, fliph |-> current.fliph,
              hit |-> FALSE, made |-> 0]
        ELSE [cells |-> cells1,
              cache |-> [SubSeq(s.transfer_cache.exit, 1, hit[1])
                            EXCEPT ![hit[1]].degree = entry.degree + 1],
              exit_id |-> IF found = None THEN Len(cells1) - 1 ELSE found[1],
              point |-> entry.point, fliph |-> entry.fliph,
              hit |-> TRUE, made |-> Len(cells1) - Len(s.cells)]

\* try_exit, lines 286-294: the flip at the exit portal
exit_flip(current, exit, exit_point, fl) ==
    IF fliph(exit)
    THEN [direction |-> flip_direction(current.direction),
          point |-> IF Vertical(current.direction)
                    THEN RatSub(ONE_POINT, exit_point) ELSE exit_point,
          fliph |-> ~fl]
    ELSE [direction |-> current.direction, point |-> exit_point, fliph |-> fl]

\* try_exit, lines 228-298
try_exit(s) ==
    LET f == top(s)
        moved == [f.cur EXCEPT !.gpos.pos = go(f.cur.gpos.pos, f.cur.direction)]
        block_id == moved.gpos.block_id
        block == Cell(s.cells, block_id)
        exit0 == exit_id_for(s.cells, block)
        exit_cell == Cell(s.cells, exit0[1])
        exit_point == ExitPoint(f.point, moved.direction, moved.gpos.pos, block)
        context_no == IF is_block(exit_cell) THEN exit_cell.block_no
                      ELSE exit_cell.target_no
        onward(tr) ==
            LET exit == Cell(tr.cells, tr.exit_id)
                fl == exit_flip(moved, exit, tr.point, tr.fliph)
                current == [moved EXCEPT !.direction = fl.direction, !.fliph = fl.fliph,
                                         !.gpos = exit.gpos]
                s1 == [s EXCEPT !.cells = tr.cells,
                                !.transfer_cache.exit = tr.cache,
                                !.transfer_cache.exit_hits =
                                    IF tr.hit
                                    THEN Append(@, <<context_no, moved.direction>>)
                                    ELSE @,
                                !.log.inf_exit = @ \/ tr.hit,
                                !.log.made = @ + tr.made,
                                !.frames[Len(s.frames)].cur = current,
                                !.frames[Len(s.frames)].exit_id = tr.exit_id]
            IN  call(s1, "after_exit", try_exit_frame(current, fl.point))
    IN  IF ~ValidId(s.cells, block_id) \/ ~is_block(block) THEN panic(s)
        ELSE IF in_bounds(block, moved.gpos.pos)
        THEN tail_call(s, try_interact_pos_frame(moved, f.point))
        ELSE IF exit0 = None THEN return(s, F)
        ELSE IF is_wall(exit_cell) THEN panic(s)
        ELSE With(exit_point,
                  LAMBDA p : With(exit_transfer(s, context_no, moved, exit0[1], p),
                                  onward))

\* variant of try_exit's shed: the portal is moved the way the traveller goes
try_exit_after_along(s) ==
    LET f == top(s)
        shed == [s EXCEPT !.move_stack = update_top(s.move_stack, f.cur),
                          !.log.shed = TRUE]
    IN  IF s.ret = T THEN return(s, T)
        ELSE IF config.shed
        THEN tail_call(shed, try_move_frame(f.exit_id, f.cur.direction))
        ELSE return(s, F)

\* try_exit, lines 298-310: the result of the onward try_exit, and shed
try_exit_after(s) ==
    LET f == top(s)
        shed == [s EXCEPT !.move_stack = update_top(s.move_stack, f.cur),
                          !.log.shed = TRUE]
    IN  IF s.ret = T THEN return(s, T)
        ELSE IF config.shed
        THEN tail_call(shed, try_move_frame(f.exit_id, opposite(f.cur.direction)))
        ELSE return(s, F)

\* variant of try_interact_pos: the slot is taken without looking for a cell on it
try_interact_pos_blind(s) ==
    return([s EXCEPT !.move_stack = update_top(s.move_stack, top(s).cur)], T)

\* try_interact_pos, lines 320-329
try_interact_pos(s) ==
    LET f == top(s)
        target == cell_at(s.cells, f.cur.gpos)
    IN  IF target # None
        THEN tail_call(s, try_interact_frame(f.cur, target[1], f.point))
        ELSE return([s EXCEPT !.move_stack = update_top(s.move_stack, f.cur)], T)

\* variant of try_interact: with every action refused the interaction counts as done
try_interact_lenient(s) ==
    LET f == top(s)
        action_type == config.attempt_order[f.k + 1]
        moving == commit_slice(s.move_stack, s.move_index)
    IN  IF f.k >= Len(config.attempt_order) THEN return(s, T)
        ELSE CASE action_type = "Push" ->
                    call(s, "wait", try_push_frame(f.cur, f.target))
               [] action_type = "Enter" ->
                    IF \E i \in 1 .. Len(moving) : moving[i].cell_id = f.target
                    THEN [s EXCEPT !.frames[Len(s.frames)].pc = "wait", !.ret = F]
                    ELSE call(s, "wait", try_enter_frame(f.cur, f.target, f.point))
               [] action_type = "Eat" ->
                    call(s, "wait", try_eat_frame(f.cur, f.target))
               [] action_type = "Possess" ->
                    call(s, "wait", try_possess_frame(f.cur.cell_id, f.target))

\* variant of try_interact: a moving target is entered like any other
try_interact_enters_moving(s) ==
    LET f == top(s)
        action_type == config.attempt_order[f.k + 1]
    IN  IF f.k >= Len(config.attempt_order) THEN return(s, F)
        ELSE CASE action_type = "Push" ->
                    call(s, "wait", try_push_frame(f.cur, f.target))
               [] action_type = "Enter" ->
                    call(s, "wait", try_enter_frame(f.cur, f.target, f.point))
               [] action_type = "Eat" ->
                    call(s, "wait", try_eat_frame(f.cur, f.target))
               [] action_type = "Possess" ->
                    call(s, "wait", try_possess_frame(f.cur.cell_id, f.target))

\* try_interact, lines 338-355: the k-th action of attempt_order
try_interact(s) ==
    LET f == top(s)
        action_type == config.attempt_order[f.k + 1]
        moving == commit_slice(s.move_stack, s.move_index)
    IN  IF f.k >= Len(config.attempt_order) THEN return(s, F)
        ELSE CASE action_type = "Push" ->
                    call(s, "wait", try_push_frame(f.cur, f.target))
               [] action_type = "Enter" ->
                    IF \E i \in 1 .. Len(moving) : moving[i].cell_id = f.target
                    THEN [s EXCEPT !.frames[Len(s.frames)].pc = "wait", !.ret = F,
                                   !.log.enter_skipped = TRUE]
                    ELSE call(s, "wait", try_enter_frame(f.cur, f.target, f.point))
               [] action_type = "Eat" ->
                    call(s, "wait", try_eat_frame(f.cur, f.target))
               [] action_type = "Possess" ->
                    call(s, "wait", try_possess_frame(f.cur.cell_id, f.target))

\* try_interact: `any` stops at the first true
try_interact_after(s) ==
    IF s.ret = T THEN return(s, T)
    ELSE [s EXCEPT !.frames[Len(s.frames)].pc = "start",
                   !.frames[Len(s.frames)].k = @ + 1,
                   !.ret = NoRet]

\* try_push, lines 384-392: the direction of an inner push
inner_push_direction(exit, d) == IF fliph(exit) THEN flip_direction(d) ELSE d

\* try_push gives up on a wall: the log keeps the greatest length the move
\* stack had when that happened
blocked(s) ==
    [s EXCEPT !.log.blocked_at = IF @ > Len(s.move_stack) THEN @ ELSE Len(s.move_stack)]

\* try_push that starts the inner push without moving move_index
try_push_carries(s) ==
    LET f == top(s)
        s1 == [s EXCEPT !.move_stack = update_top(s.move_stack, f.cur),
                        !.log.push = TRUE]
        target == Cell(s.cells, f.target)
        cyc == check_cycle(s1.move_stack, s1.move_index, f.target, f.cur.direction)
        parent_id == target.gpos.block_id
        parent == Cell(s.cells, parent_id)
        exit0 == exit_id_for(s.cells, parent)
        s2 == [s1 EXCEPT !.log.inner_push = TRUE,
                         !.frames[Len(s.frames)].old_move_index = s1.move_index,
                         !.frames[Len(s.frames)].k = Len(s1.move_stack)]
    IN  IF ~is_wall(target)
        THEN tail_call(s1, try_move_frame(f.target, f.cur.direction))
        ELSE IF cyc.tag = "Ok"
        THEN return([s1 EXCEPT !.move_index = cyc.i, !.log.cycle = TRUE], T)
        ELSE IF ~config.inner_push THEN return(blocked(s1), F)
        ELSE IF ~ValidId(s.cells, parent_id) \/ ~is_block(parent) THEN panic(s1)
        ELSE IF exit0 = None THEN return(blocked(s1), F)
        ELSE call(s2, "after_inner",
                  try_move_frame(exit0[1],
                                 inner_push_direction(Cell(s.cells, exit0[1]),
                                                      f.cur.direction)))

\* try_push, lines 363-406; on an inner push the frame keeps in k the length
\* the move stack had, for the log
try_push(s) ==
    LET f == top(s)
        s1 == [s EXCEPT !.move_stack = update_top(s.move_stack, f.cur),
                        !.log.push = TRUE]
        target == Cell(s.cells, f.target)
        cyc == check_cycle(s1.move_stack, s1.move_index, f.target, f.cur.direction)
        parent_id == target.gpos.block_id
        parent == Cell(s.cells, parent_id)
        exit0 == exit_id_for(s.cells, parent)
        s2 == [s1 EXCEPT !.move_index = Len(s1.move_stack),
                         !.log.inner_push = TRUE,
                         !.frames[Len(s.frames)].old_move_index = s1.move_index,
                         !.frames[Len(s.frames)].k = Len(s1.move_stack)]
    IN  IF ~is_wall(target)
        THEN tail_call(s1, try_move_frame(f.target, f.cur.direction))
        ELSE IF cyc.tag = "Ok"
        THEN return([s1 EXCEPT !.move_index = cyc.i, !.log.cycle = TRUE], T)
        ELSE IF ~config.inner_push THEN return(blocked(s1), F)
        ELSE IF ~ValidId(s.cells, parent_id) \/ ~is_block(parent) THEN panic(s1)
        ELSE IF exit0 = None THEN return(blocked(s1), F)
        ELSE call(s2, "after_inner",
                  try_move_frame(exit0[1],
                                 inner_push_direction(Cell(s.cells, exit0[1]),
                                                      f.cur.direction)))

\* variant of try_push_after: a failed inner push leaves move_index raised
try_push_after_raised(s) ==
    IF s.ret = T
    THEN return([s EXCEPT !.log.inner_at = IF @ = ROOT \/ @ < top(s).k
                                           THEN top(s).k ELSE @], T)
    ELSE return(blocked(s), F)

\* try_push, lines 394-402: the result of the inner push; the log keeps the
\* greatest stack length at which an inner push that succeeded began
try_push_after(s) ==
    IF s.ret = T
    THEN return([s EXCEPT !.log.inner_at = IF @ = ROOT \/ @ < top(s).k
                                           THEN top(s).k ELSE @], T)
    ELSE return(blocked([s EXCEPT !.move_index = top(s).old_move_index]), F)


\* try_enter, lines 418-437: the block to enter.
\* "no": the enter is refused; "panic": block_by_no(..).unwrap() on None
block_to_enter(s, target) ==
    LET by_no == block_by_no(s.cells, block_map, target.target_no)
    IN  CASE is_wall(target) -> [tag |-> "no", id |-> ROOT]
          [] is_block(target) ->
               IF is_space(s.cells, target.gpos.block_id)
               THEN [tag |-> "no", id |-> ROOT]
               ELSE [tag |-> "ok", id |-> target.id]
          [] OTHER ->
               IF ~reference_can_enter(target) \/ is_space(s.cells, target.gpos.block_id)
               THEN [tag |-> "no", id |-> ROOT]
               ELSE IF by_no = None THEN [tag |-> "panic", id |-> ROOT]
               ELSE [tag |-> "ok", id |-> by_no[1]]

\* variant of enter_flip: the point is mirrored, the direction kept
enter_flip_straight(target, d, enter_point) ==
    IF fliph(target)
    THEN [direction |-> d, point |-> RatSub(ONE_POINT, enter_point)]
    ELSE [direction |-> d, point |-> enter_point]

\* try_enter, lines 440-446: the flip at the entered cell
enter_flip(target, d, enter_point) ==
    IF fliph(target)
    THEN [direction |-> flip_direction(d),
          point |-> IF Vertical(d) THEN RatSub(ONE_POINT, enter_point) ELSE enter_point]
    ELSE [direction |-> d, point |-> enter_point]

\* variant of enter_transfer: a flipped cell toggles the mover's fliph on a
\* hit of the enter cache as well, after the entry's fliph has been taken
enter_transfer_toggles(s, target, block, current, d, enter_point) ==
    LET state == TransferState(block.block_no, d, enter_point, current.fliph)
        hit == enter_position(s.transfer_cache.enter, state)
        entry == s.transfer_cache.enter[hit[1]]
        found == inf_enter_id_for(s.cells, block, entry.degree)
        cells1 == IF found = None
                  THEN add_inf_enter_for(s.cells, entry.block_no, entry.degree)
                  ELSE s.cells
    IN  IF hit = None
        THEN [panic |-> FALSE, cells |-> s.cells,
              cache |-> Append(s.transfer_cache.enter, state),
              block_id |-> block.id, point |-> enter_point,
              fliph |-> IF fliph(target) THEN ~current.fliph ELSE current.fliph,
              hit |-> FALSE, made |-> 0]
        ELSE [panic |-> found = None
                        /\ block_by_no(s.cells, block_map, entry.block_no) = None,
              cells |-> cells1,
              cache |-> [SubSeq(s.transfer_cache.enter, 1, hit[1])
                            EXCEPT ![hit[1]].point = MIDDLE_POINT,
                                   ![hit[1]].degree = entry.degree + 1],
              block_id |-> IF found = None THEN Len(cells1) - 1 ELSE found[1],
              point |-> MIDDLE_POINT,
              fliph |-> IF fliph(target) THEN ~entry.fliph ELSE entry.fliph,
              hit |-> TRUE, made |-> Len(cells1) - Len(s.cells)]

\* try_enter, lines 449-480: the enter cache and the redirection to an inf enter.
\* Gives [panic, cells, cache, block_id, point, fliph, hit, made].
enter_transfer(s, target, block, current, d, enter_point) ==
    LET state == TransferState(block.block_no, d, enter_point, current.fliph)
        hit == enter_position(s.transfer_cache.enter, state)
        entry == s.transfer_cache.enter[hit[1]]
        found == inf_enter_id_for(s.cells, block, entry.degree)
        cells1 == IF found = None
                  THEN add_inf_enter_for(s.cells, entry.block_no, entry.degree)
                  ELSE s.cells
    IN  IF hit = None
        THEN [panic |-> FALSE, cells |-> s.cells,
              cache |-> Append(s.transfer_cache.enter, state),
              block_id |-> block.id, point |-> enter_point,
              fliph |-> IF fliph(target) THEN ~current.fliph ELSE current.fliph,
              hit |-> FALSE, made |-> 0]
        ELSE [panic |-> found = None
                        /\ block_by_no(s.cells, block_map, entry.block_no) = None,
              cells |-> cells1,
              cache |-> [SubSeq(s.transfer_cache.enter, 1, hit[1])
                            EXCEPT ![hit[1]].point = MIDDLE_POINT,
                                   ![hit[1]].degree = entry.degree + 1],
              block_id |-> IF found = None THEN Len(cells1) - 1 ELSE found[1],
              point |-> MIDDLE_POINT, fliph |-> entry.fliph,
              hit |-> TRUE, made |-> Len(cells1) - Len(s.cells)]

\* variant of enter_pos: a mover going Down lands on y = 0, one going Up on y = H - 1
enter_pos_far_edge(block, d, enter_point) ==
    LET along == IF Vertical(d) THEN enter_coord(enter_point, block.width)
                 ELSE enter_coord(enter_point, block.height)
    IN  CASE d = "Down" -> <<Pos(along[1], 0), along[2]>>
          [] d = "Up" -> <<Pos(along[1], block.height - 1), along[2]>>
          [] d = "Left" -> <<Pos(block.width - 1, along[1]), along[2]>>
          [] d = "Right" -> <<Pos(0, along[1]), along[2]>>

\* try_enter, lines 483-499: <<pos, residual point>> on the entered edge
enter_pos(block, d, enter_point) ==
    LET along == IF Vertical(d) THEN enter_coord(enter_point, block.width)
                 ELSE enter_coord(enter_point, block.height)
    IN  CASE d = "Up" -> <<Pos(along[1], 0), along[2]>>
          [] d = "Down" -> <<Pos(along[1], block.height - 1), along[2]>>
          [] d = "Left" -> <<Pos(block.width - 1, along[1]), along[2]>>
          [] d = "Right" -> <<Pos(0, along[1]), along[2]>>

\* try_enter, lines 418-502
try_enter(s) ==
    LET f == top(s)
        target == Cell(s.cells, f.target)
        to_enter == block_to_enter(s, target)
        block == Cell(s.cells, to_enter.id)
        fl == enter_flip(target, f.cur.direction, f.point)
        inward(tr) ==
            LET entered == Cell(tr.cells, tr.block_id)
                ep == enter_pos(entered, fl.direction, tr.point)
                current == [f.cur EXCEPT !.direction = fl.direction, !.fliph = tr.fliph,
                                         !.gpos = GlobalPos(entered.id, ep[1])]
                s1 == [s EXCEPT !.cells = tr.cells,
                                !.transfer_cache.enter = tr.cache,
                                !.log.inf_enter = @ \/ tr.hit,
                                !.log.made = @ + tr.made,
                                !.log.enter = TRUE]
            IN  IF tr.panic THEN panic(s)
                ELSE tail_call(s1, try_interact_pos_frame(current, ep[2]))
        refused == [s EXCEPT !.log.refused = f.target]
    IN  IF to_enter.tag = "no" THEN return(refused, F)
        ELSE IF to_enter.tag = "panic" THEN panic(s)
        ELSE IF ~block_can_enter(block) THEN return(refused, F)
        ELSE With(enter_transfer(s, target, block, f.cur, fl.direction, fl.point), inward)

\* variant of eaten_state: the eaten cell goes the way the eater goes
eaten_state_forward(s, eaten, current) ==
    [eaten EXCEPT !.direction = current.direction]

\* try_eat, lines 545-552: the eaten cell follows a flip of the eater
eaten_state(s, eaten, current) ==
    IF current.fliph # fliph(Cell(s.cells, current.cell_id))
    THEN [eaten EXCEPT !.direction = flip_direction(eaten.direction),
                       !.fliph = ~eaten.fliph]
    ELSE eaten

\* variant of try_eat: a target that has a record is eaten like any other
try_eat_again(s) ==
    LET f == top(s)
        target == Cell(s.cells, f.target)
        s1 == [s EXCEPT !.move_stack = update_top(s.move_stack, f.cur),
                        !.log.eat = TRUE]
        s2 == push_move(s1, f.target, opposite(f.cur.direction))
        eaten == eaten_state(s, s2.move_stack[Len(s2.move_stack)], f.cur)
    IN  IF is_wall(target) THEN return(s, F)
        ELSE call(s2, "after_enter", try_enter_frame(eaten, f.cur.cell_id, MIDDLE_POINT))

\* try_eat, lines 509-554
try_eat(s) ==
    LET f == top(s)
        target == Cell(s.cells, f.target)
        s1 == [s EXCEPT !.move_stack = update_top(s.move_stack, f.cur),
                        !.log.eat = TRUE]
        s2 == push_move(s1, f.target, opposite(f.cur.direction))
        eaten == eaten_state(s, s2.move_stack[Len(s2.move_stack)], f.cur)
    IN  IF is_wall(target) THEN return(s, F)
        ELSE IF \E i \in 1 .. Len(s.move_stack) : s.move_stack[i].cell_id = f.target
        THEN return(s, F)
        ELSE call(s2, "after_enter", try_enter_frame(eaten, f.cur.cell_id, MIDDLE_POINT))

\* try_eat, lines 554-559: the result of try_enter
try_eat_after(s) ==
    IF s.ret = T
    THEN return([s EXCEPT !.log.eat_ok = TRUE,
                          !.log.eater = top(s).cur.cell_id,
                          !.log.eaten = top(s).target], T)
    ELSE return(pop_move(s), F)

\* variant of can_possess: the target's possessable flag is not looked at
can_possess_any(s, source_id, target_id) ==
    /\ source_id = s.player_ids[s.player_index + 1]
    /\ \A i \in 1 .. Len(s.player_ids) : s.player_ids[i] # target_id

\* try_possess, lines 564-569: who may possess what
can_possess(s, source_id, target_id) ==
    /\ source_id = s.player_ids[s.player_index + 1]
    /\ Cell(s.cells, target_id).possessable
    /\ \A i \in 1 .. Len(s.player_ids) : s.player_ids[i] # target_id

\* variant of try_possess: the player id is written before the target is checked
try_possess_early_write(s) ==
    LET f == top(s)
        written == [s EXCEPT !.player_ids[s.player_index + 1] = f.target]
    IN  IF f.cell_id # s.player_ids[s.player_index + 1] THEN return(s, F)
        ELSE IF can_possess(s, f.cell_id, f.target)
        THEN return([written EXCEPT !.move_index = Len(s.move_stack),
                                    !.log.possessed = TRUE,
                                    !.log.target = f.target], T)
        ELSE return(written, F)

\* variant of try_possess: a possession is carried out and reported as a failure
try_possess_reports_failure(s) ==
    LET f == top(s)
    IN  IF can_possess(s, f.cell_id, f.target)
        THEN return([s EXCEPT !.player_ids[s.player_index + 1] = f.target,
                              !.move_index = Len(s.move_stack)], F)
        ELSE return(s, F)

\* variant of try_possess: move_index is left where it was
try_possess_keeps_index(s) ==
    LET f == top(s)
    IN  IF can_possess(s, f.cell_id, f.target)
        THEN return([s EXCEPT !.player_ids[s.player_index + 1] = f.target,
                              !.log.possessed = TRUE,
                              !.log.target = f.target], T)
        ELSE return(s, F)

\* try_possess, lines 562-577
try_possess(s) ==
    LET f == top(s)
    IN  IF can_possess(s, f.cell_id, f.target)
        THEN return([s EXCEPT !.player_ids[s.player_index + 1] = f.target,
                              !.move_index = Len(s.move_stack),
                              !.log.possessed = TRUE,
                              !.log.target = f.target], T)
        ELSE return(s, F)

\* variant of commit: the whole move stack is applied, move_index ignored
commit_whole_stack(s) ==
    [s EXCEPT !.cells = apply_all(s.cells, s.move_stack),
              !.log.kept = s.move_index,
              !.log.applied = Len(s.move_stack) - s.move_index]

\* play, lines 141-145: the commit after try_move returned true
commit(s) ==
    IF s.move_index > Len(s.move_stack) THEN panic(s)
    ELSE [s EXCEPT !.cells = apply_all(s.cells, commit_slice(s.move_stack, s.move_index)),
                   !.log.kept = s.move_index,
                   !.log.applied = Len(s.move_stack) - s.move_index]

\* play, lines 146-149
clear(s) ==
    [s EXCEPT !.move_stack = <<>>, !.move_index = 0,
              !.transfer_stack = <<>>, !.transfer_cache = EmptyCache]

\* play, lines 141-149: what follows the player's try_move
play_after(s) ==
    LET done == IF s.ret = T THEN commit(s) ELSE s
    IN  IF done.status = "panic" THEN done
        ELSE [clear(done) EXCEPT !.frames[Len(s.frames)].pc = "start",
                                 !.frames[Len(s.frames)].k = @ + 1,
                                 !.ret = NoRet,
                                 !.log.result = s.ret]

----------------------------------------------------------------------------
(* Levels: worlds as Game::from_str builds them *)

DefaultOrder == <<"Push", "Enter", "Eat", "Possess">>

Level(cs, gs, players, order, shed, inner_push) ==
    [cells |-> cs, goals |-> gs, player_ids |-> players,
     config |-> [attempt_order |-> order, shed |-> shed, inner_push |-> inner_push]]

\* from_str, lines 517 and 647-654: block_no -> the last block line with that number
BlockMapOf(cs) ==
    LET loaded == {i \in CellIds(cs) : is_block(Cell(cs, i)) /\ ~Cell(cs, i).space}
    IN  [n \in {Cell(cs, i).block_no : i \in loaded} |->
            Max({i \in loaded : Cell(cs, i).block_no = n})]

\* from_str with check_pos: what the loader requires of the cells it accepts
LoaderAccepts(L) ==
    LET cs == L.cells
    IN  /\ \A i \in CellIds(cs) :
              LET c == Cell(cs, i)
                  b == c.gpos.block_id
              IN  /\ c.id = i
                  /\ is_wall(c) => b # ROOT
                  /\ (is_block(c) /\ ~c.filled) => (c.width > 0 /\ c.height > 0)
                  /\ is_reference(c) => c.target_no \in DOMAIN BlockMapOf(cs)
                  /\ b # ROOT =>
                        /\ b >= 0 /\ b < i
                        /\ is_block(Cell(cs, b))
                        /\ in_bounds(Cell(cs, b), c.gpos.pos)
                        /\ \A j \in 0 .. (i - 1) : Cell(cs, j).gpos # c.gpos
        /\ \A k \in 1 .. Len(L.player_ids) : ValidId(cs, L.player_ids[k])

\* a player box pushes a box onto a button
LevelPush ==
    Level(<<Block(0, ROOT, 0, 0, 0, 3, 2, FALSE, FALSE, FALSE),
            Block(1, 0, 0, 0, 1, 1, 1, TRUE, TRUE, FALSE),
            Block(2, 0, 1, 0, 2, 1, 1, TRUE, FALSE, FALSE),
            Wall(3, 0, 2, 1, FALSE)>>,
          <<Goal(0, 2, 0, FALSE)>>, <<1>>, DefaultOrder, FALSE, FALSE)

\* the simple push level: a walled 5 x 5 room, the player box, a box, a button
LevelSimplePush ==
    Level(<<Block(0, ROOT, 0, 0, 0, 5, 5, FALSE, FALSE, FALSE),
            Wall(1, 0, 0, 0, FALSE), Wall(2, 0, 1, 0, FALSE), Wall(3, 0, 2, 0, FALSE),
            Wall(4, 0, 3, 0, FALSE), Wall(5, 0, 4, 0, FALSE), Wall(6, 0, 0, 4, FALSE),
            Wall(7, 0, 4, 4, FALSE), Wall(8, 0, 0, 1, FALSE), Wall(9, 0, 0, 2, FALSE),
            Wall(10, 0, 0, 3, FALSE), Wall(11, 0, 4, 1, FALSE), Wall(12, 0, 4, 2, FALSE),
            Wall(13, 0, 4, 3, FALSE), Wall(14, 0, 1, 4, FALSE), Wall(15, 0, 2, 4, FALSE),
            Wall(16, 0, 3, 4, FALSE),
            Block(17, 0, 1, 1, 1, 1, 1, TRUE, TRUE, FALSE),
            Block(18, 0, 2, 1, 2, 1, 1, TRUE, FALSE, FALSE)>>,
          <<Goal(0, 3, 1, FALSE)>>, <<17>>, DefaultOrder, FALSE, FALSE)

\* the exit portal of block 0 lies inside block 0, on its border
LevelSelfExit ==
    Level(<<Block(0, ROOT, 0, 0, 0, 3, 3, FALSE, FALSE, FALSE),
            Block(1, 0, 2, 0, 1, 1, 1, TRUE, TRUE, FALSE),
            Reference(2, 0, 2, 1, 0, TRUE, None, FALSE, FALSE)>>,
          <<>>, <<1>>, DefaultOrder, FALSE, FALSE)

\* the exit portal of block 0 is a reference on the top level
LevelRootExit ==
    Level(<<Block(0, ROOT, 0, 0, 0, 2, 1, FALSE, FALSE, FALSE),
            Block(1, 0, 0, 0, 1, 1, 1, TRUE, TRUE, FALSE),
            Reference(2, ROOT, 1, 0, 0, TRUE, None, FALSE, FALSE)>>,
          <<>>, <<1>>, DefaultOrder, FALSE, FALSE)

\* as LevelRootExit, with a second player behind the first
LevelRootExitPair ==
    Level(<<Block(0, ROOT, 0, 0, 0, 2, 1, FALSE, FALSE, FALSE),
            Block(1, 0, 0, 0, 1, 1, 1, TRUE, TRUE, FALSE),
            Block(2, 0, 1, 0, 2, 1, 1, TRUE, TRUE, FALSE),
            Reference(3, ROOT, 1, 0, 0, TRUE, None, FALSE, FALSE)>>,
          <<>>, <<1, 2>>, DefaultOrder, FALSE, FALSE)

\* block 1 holds, on its entering edge, an unpushable reference to itself
LevelSelfEnter ==
    Level(<<Block(0, ROOT, 0, 0, 0, 3, 1, FALSE, FALSE, FALSE),
            Block(1, 0, 0, 0, 9, 1, 1, TRUE, TRUE, FALSE),
            Block(2, 0, 1, 0, 1, 3, 3, FALSE, FALSE, FALSE),
            Wall(3, 0, 2, 0, FALSE),
            Reference(4, 2, 0, 1, 1, FALSE, None, FALSE, FALSE),
            Wall(5, 2, 1, 1, FALSE)>>,
          <<>>, <<1>>, DefaultOrder, FALSE, FALSE)

\* as LevelSelfExit, with the inf exit of degree 0 given by the level, walled in
LevelInfExit ==
    Level(<<Block(0, ROOT, 0, 0, 0, 3, 3, FALSE, FALSE, FALSE),
            Block(1, 0, 2, 0, 1, 1, 1, TRUE, TRUE, FALSE),
            Reference(2, 0, 2, 1, 0, TRUE, None, FALSE, FALSE),
            Block(3, ROOT, 1, 0, 2, 2, 1, FALSE, FALSE, FALSE),
            Reference(4, 3, 0, 0, 0, FALSE, Some(0), FALSE, FALSE),
            Wall(5, 3, 1, 0, FALSE)>>,
          <<>>, <<1>>, DefaultOrder, FALSE, FALSE)

\* as LevelSelfEnter, with the inf enter block of degree 0 given by the level
\* (block 7, tagged by the Ref line of cell 8), its entering cell walled
LevelInfEnter ==
    Level(<<Block(0, ROOT, 0, 0, 0, 3, 1, FALSE, FALSE, FALSE),
            Block(1, 0, 0, 0, 9, 1, 1, TRUE, TRUE, FALSE),
            Block(2, 0, 1, 0, 1, 3, 3, FALSE, FALSE, FALSE),
            Wall(3, 0, 2, 0, FALSE),
            Reference(4, 2, 0, 1, 1, FALSE, None, FALSE, FALSE),
            Wall(5, 2, 1, 1, FALSE),
            [Block(6, ROOT, 1, 0, 7, 1, 1, FALSE, FALSE, FALSE)
                EXCEPT !.inf_enter = Some(<<1, 0>>)],
            Wall(7, 6, 0, 0, FALSE),
            Reference(8, ROOT, 2, 0, 7, FALSE, None, FALSE, FALSE)>>,
          <<>>, <<1>>, DefaultOrder, FALSE, FALSE)

\* a two-wide block whose entering cell is a flipped block
LevelFlip ==
    Level(<<Block(0, ROOT, 0, 0, 0, 3, 3, FALSE, FALSE, FALSE),
            Block(1, 0, 1, 0, 1, 1, 1, TRUE, TRUE, FALSE),
            Block(2, 0, 1, 1, 2, 2, 1, FALSE, FALSE, FALSE),
            Block(3, 2, 1, 0, 3, 1, 1, FALSE, FALSE, TRUE),
            Wall(4, 0, 1, 2, FALSE)>>,
          <<>>, <<1>>, DefaultOrder, FALSE, FALSE)

\* a flipped two by two block between the player and a wall
LevelFlipRight ==
    Level(<<Block(0, ROOT, 0, 0, 0, 3, 1, FALSE, FALSE, FALSE),
            Block(1, 0, 0, 0, 1, 1, 1, TRUE, TRUE, FALSE),
            Block(2, 0, 1, 0, 2, 2, 2, FALSE, FALSE, TRUE),
            Wall(3, 0, 2, 0, FALSE)>>,
          <<>>, <<1>>, DefaultOrder, FALSE, FALSE)

\* a possessable wall next to the player, who is not possessable itself
LevelPossess ==
    Level(<<Block(0, ROOT, 0, 0, 0, 3, 1, FALSE, FALSE, FALSE),
            Block(1, 0, 0, 0, 1, 1, 1, TRUE, FALSE, FALSE),
            Wall(2, 0, 1, 0, TRUE)>>,
          <<Goal(0, 2, 0, TRUE)>>, <<1>>, DefaultOrder, FALSE, FALSE)

\* eat comes first: the player, an open block, swallows the box
LevelEat ==
    Level(<<Block(0, ROOT, 0, 0, 0, 3, 1, FALSE, FALSE, FALSE),
            Block(1, 0, 0, 0, 1, 1, 1, FALSE, TRUE, FALSE),
            Block(2, 0, 1, 0, 2, 1, 1, TRUE, FALSE, FALSE)>>,
          <<>>, <<1>>, <<"Eat", "Push", "Enter", "Possess">>, FALSE, FALSE)

\* eat comes first, but the player is a filled box: it can only push
LevelEatFilled ==
    Level(<<Block(0, ROOT, 0, 0, 0, 3, 1, FALSE, FALSE, FALSE),
            Block(1, 0, 0, 0, 1, 1, 1, TRUE, TRUE, FALSE),
            Block(2, 0, 1, 0, 2, 1, 1, TRUE, FALSE, FALSE)>>,
          <<>>, <<1>>, <<"Eat", "Push", "Enter", "Possess">>, FALSE, FALSE)

\* shed: the player leaves a block that sits on the border of a root block
LevelShed ==
    Level(<<Block(0, ROOT, 0, 0, 0, 3, 1, FALSE, FALSE, FALSE),
            Block(1, 0, 2, 0, 1, 1, 1, FALSE, FALSE, FALSE),
            Block(2, 1, 0, 0, 2, 1, 1, TRUE, TRUE, FALSE)>>,
          <<>>, <<2>>, DefaultOrder, TRUE, FALSE)

\* inner push: the player pushes a wall of the block it stands in
LevelInnerPush ==
    Level(<<Block(0, ROOT, 0, 0, 0, 4, 1, FALSE, FALSE, FALSE),
            Block(1, 0, 1, 0, 1, 2, 1, FALSE, FALSE, FALSE),
            Block(2, 1, 0, 0, 2, 1, 1, TRUE, TRUE, FALSE),
            Wall(3, 1, 1, 0, FALSE)>>,
          <<>>, <<2>>, DefaultOrder, FALSE, TRUE)

\* the inner push of a mirrored block: it leaves against the push
LevelInnerPushFlip ==
    Level(<<Block(0, ROOT, 0, 0, 0, 4, 1, FALSE, FALSE, FALSE),
            Block(1, 0, 1, 0, 1, 2, 1, FALSE, FALSE, TRUE),
            Block(2, 1, 0, 0, 2, 1, 1, TRUE, TRUE, FALSE),
            Wall(3, 1, 1, 0, FALSE)>>,
          <<>>, <<2>>, DefaultOrder, FALSE, TRUE)

\* shed through a mirrored block: the player presses right, leaves to the
\* left against a wall, and the block is moved to the right
LevelShedFlip ==
    Level(<<Block(0, ROOT, 0, 0, 0, 3, 1, FALSE, FALSE, FALSE),
            Wall(1, 0, 0, 0, FALSE),
            Block(2, 0, 1, 0, 1, 1, 1, FALSE, FALSE, TRUE),
            Block(3, 2, 0, 0, 2, 1, 1, TRUE, TRUE, FALSE)>>,
          <<>>, <<3>>, DefaultOrder, TRUE, FALSE)

\* two players in a row, the second registered first in the file
LevelTwoPlayers ==
    Level(<<Block(0, ROOT, 0, 0, 0, 3, 2, FALSE, FALSE, FALSE),
            Block(1, 0, 1, 0, 1, 1, 1, TRUE, TRUE, FALSE),
            Block(2, 0, 0, 0, 2, 1, 1, TRUE, TRUE, FALSE),
            Block(3, 0, 1, 1, 3, 1, 1, TRUE, TRUE, FALSE)>>,
          <<>>, <<2, 1>>, DefaultOrder, FALSE, FALSE)

\* two players in a row with room ahead: the first pushes the second
LevelPlayersRow ==
    Level(<<Block(0, ROOT, 0, 0, 0, 4, 1, FALSE, FALSE, FALSE),
            Block(1, 0, 0, 0, 1, 1, 1, TRUE, TRUE, FALSE),
            Block(2, 0, 1, 0, 2, 1, 1, TRUE, TRUE, FALSE)>>,
          <<>>, <<1, 2>>, DefaultOrder, FALSE, FALSE)

\* as LevelSelfEnter, with enter tried before push
LevelEnterFirst ==
    Level(LevelSelfEnter.cells, <<>>, <<1>>,
          <<"Enter", "Push", "Eat", "Possess">>, FALSE, FALSE)

\* a floating player box: the loader puts it on the center of a space of its own
LevelFloating ==
    Level(Append(add_space(<<>>),
                 Block(1, 0, SPACE_CENTER[1], SPACE_CENTER[2], 1, 1, 1, TRUE, TRUE, FALSE)),
          <<>>, <<1>>, DefaultOrder, FALSE, FALSE)

\* as LevelFloating, the floating box being the block numbered 0 of the file
LevelFloatingZero ==
    Level(Append(add_space(<<>>),
                 Block(1, 0, SPACE_CENTER[1], SPACE_CENTER[2], 0, 1, 1, TRUE, TRUE, FALSE)),
          <<>>, <<1>>, DefaultOrder, FALSE, FALSE)

\* the box the player pushes starts an inner push that fails; the player then
\* enters the box
LevelInnerPushFails ==
    Level(<<Block(0, ROOT, 0, 0, 0, 3, 1, FALSE, FALSE, FALSE),
            Block(1, 0, 0, 0, 1, 3, 1, FALSE, FALSE, FALSE),
            Block(2, 1, 0, 0, 2, 1, 1, TRUE, TRUE, FALSE),
            Block(3, 1, 1, 0, 3, 1, 1, FALSE, FALSE, FALSE),
            Wall(4, 1, 2, 0, FALSE),
            Wall(5, 0, 1, 0, FALSE)>>,
          <<>>, <<2>>, DefaultOrder, FALSE, TRUE)

\* shed: the player pushes a box out of their block against a wall
LevelShedPush ==
    Level(<<Block(0, ROOT, 0, 0, 0, 4, 1, FALSE, FALSE, FALSE),
            Block(1, 0, 2, 0, 1, 2, 1, FALSE, FALSE, FALSE),
            Block(2, 1, 0, 0, 2, 1, 1, TRUE, TRUE, FALSE),
            Block(3, 1, 1, 0, 3, 1, 1, TRUE, FALSE, FALSE),
            Wall(4, 0, 3, 0, FALSE)>>,
          <<>>, <<2>>, DefaultOrder, TRUE, FALSE)

\* the player in block 1 pushes box 3 round block 0, whose exit portal lies
\* in its own first slot: the box comes back to block 1 and block 1 to the box
LevelCycleTail ==
    Level(<<Block(0, ROOT, 0, 0, 0, 3, 1, FALSE, FALSE, FALSE),
            Reference(1, 0, 0, 0, 0, TRUE, None, FALSE, FALSE),
            Block(2, 0, 1, 0, 1, 1, 1, FALSE, FALSE, FALSE),
            Block(3, 2, 0, 0, 2, 1, 1, TRUE, TRUE, FALSE),
            Block(4, 0, 2, 0, 3, 1, 1, TRUE, FALSE, FALSE)>>,
          <<>>, <<3>>, DefaultOrder, FALSE, FALSE)

\* block 2 eats box 4, which pushes box 3 out of block 2 back onto the player
LevelEatBack ==
    Level(<<Block(0, ROOT, 0, 0, 0, 4, 1, FALSE, FALSE, FALSE),
            Block(1, 0, 0, 0, 1, 1, 1, TRUE, TRUE, FALSE),
            Block(2, 0, 1, 0, 2, 1, 1, FALSE, FALSE, FALSE),
            Block(3, 2, 0, 0, 3, 1, 1, TRUE, FALSE, FALSE),
            Block(4, 0, 2, 0, 4, 1, 1, TRUE, FALSE, FALSE),
            Wall(5, 0, 3, 0, FALSE)>>,
          <<>>, <<1>>, DefaultOrder, FALSE, FALSE)

\* inner push, enter first: the block pushed from inside pushes box 6 round
\* block 0 into a reference to the block, onto the player
LevelInnerLoop ==
    Level(<<Block(0, ROOT, 0, 0, 0, 4, 1, FALSE, FALSE, FALSE),
            Reference(1, 0, 0, 0, 0, TRUE, None, FALSE, FALSE),
            Block(2, 0, 2, 0, 1, 2, 1, FALSE, FALSE, FALSE),
            Block(3, 2, 0, 0, 2, 1, 1, TRUE, TRUE, FALSE),
            Wall(4, 2, 1, 0, FALSE),
            Reference(5, 0, 1, 0, 1, FALSE, None, FALSE, FALSE),
            Block(6, 0, 3, 0, 3, 1, 1, TRUE, FALSE, FALSE)>>,
          <<>>, <<3>>, <<"Enter", "Push", "Eat", "Possess">>, FALSE, TRUE)

\* enter first: a block two high above the player, free room above the block
LevelEnterUp ==
    Level(<<Block(0, ROOT, 0, 0, 0, 1, 3, FALSE, FALSE, FALSE),
            Block(1, 0, 0, 0, 1, 1, 1, TRUE, TRUE, FALSE),
            Block(2, 0, 0, 1, 2, 1, 2, FALSE, FALSE, FALSE)>>,
          <<>>, <<1>>, <<"Enter", "Push", "Eat", "Possess">>, FALSE, FALSE)

\* two root blocks whose exits and inf exits of degree 0, all given by the
\* level, lie on their own right edges: the player leaves block 0 again and again
LevelExitWeave ==
    Level(<<Block(0, ROOT, 0, 0, 0, 1, 2, FALSE, FALSE, FALSE),
            Block(1, 0, 0, 0, 2, 1, 1, TRUE, TRUE, FALSE),
            Reference(2, 0, 0, 1, 1, FALSE, Some(0), FALSE, FALSE),
            Block(3, ROOT, 0, 0, 1, 1, 3, FALSE, FALSE, FALSE),
            Reference(4, 3, 0, 0, 0, TRUE, None, FALSE, FALSE),
            Reference(5, 3, 0, 1, 1, TRUE, None, FALSE, FALSE),
            Reference(6, 3, 0, 2, 0, FALSE, Some(0), FALSE, FALSE)>>,
          <<>>, <<1>>, DefaultOrder, FALSE, FALSE)

\* a flipped block above the player holds a flipped reference to itself
LevelFlipSelfUp ==
    Level(<<Block(0, ROOT, 0, 0, 0, 1, 2, FALSE, FALSE, FALSE),
            Block(1, 0, 0, 0, 9, 1, 1, TRUE, TRUE, FALSE),
            Block(2, 0, 0, 1, 1, 1, 2, FALSE, FALSE, TRUE),
            Reference(3, 2, 0, 0, 1, FALSE, None, FALSE, TRUE),
            Wall(4, 2, 0, 1, FALSE)>>,
          <<>>, <<1>>, DefaultOrder, FALSE, FALSE)

Levels ==
    {LevelPush, LevelSelfExit, LevelRootExit, LevelSelfEnter, LevelInfExit,
     LevelInfEnter, LevelFlip, LevelPossess, LevelEat, LevelShed, LevelInnerPush,
     LevelTwoPlayers, LevelFloating, LevelShedPush, LevelEnterFirst,
     LevelEatFilled, LevelFlipRight, LevelSimplePush,
     LevelPlayersRow, LevelRootExitPair, LevelCycleTail, LevelEatBack,
     LevelInnerLoop, LevelEnterUp, LevelExitWeave,
     LevelFlipSelfUp, LevelInnerPushFlip, LevelShedFlip, LevelFloatingZero,
     LevelInnerPushFails}

----------------------------------------------------------------------------
(* The state machine *)

\* the game as loaded from level L, before the first play
Loaded(L) ==
    /\ cells = L.cells
    /\ goals = L.goals
    /\ block_map = BlockMapOf(L.cells)
    /\ player_ids = L.player_ids
    /\ config = L.config
    /\ player_index = 0
    /\ move_stack = <<>>
    /\ move_index = 0
    /\ transfer_cache = EmptyCache
    /\ transfer_stack = <<>>
    /\ frames = <<>>
    /\ ret = NoRet
    /\ status = "idle"
    /\ direction = "Up"
    /\ turns = 0
    /\ pre = [cells |-> L.cells, goals |-> L.goals, player_ids |-> L.player_ids,
              turn_cells |-> L.cells]
    /\ log = EmptyLog
    /\ last_call = None

Init ==
    \E L \in Levels :
        /\ LoaderAccepts(L)
        /\ Loaded(L)
        /\ geom = NoGeom

Running == status = "busy" /\ frames # <<>> /\ Len(frames) <= MaxDepth
At(fn, pc) == Running /\ frames[Len(frames)].fn = fn /\ frames[Len(frames)].pc = pc

\* Game::play with Simulator::new, and the head of the loop of Simulator::play
Play(d) ==
    /\ status = "idle"
    /\ turns < MaxTurns
    /\ status' = "busy"
    /\ direction' = d
    /\ turns' = turns + 1
    /\ frames' = <<Frame("play")>>
    /\ ret' = NoRet
    /\ player_index' = 0
    /\ move_stack' = <<>>
    /\ move_index' = 0
    /\ transfer_cache' = EmptyCache
    /\ transfer_stack' = <<>>
    /\ pre' = [cells |-> cells, goals |-> goals, player_ids |-> player_ids,
               turn_cells |-> cells]
    /\ log' = EmptyLog
    /\ UNCHANGED <<cells, goals, block_map, player_ids, config, last_call, geom>>

\* play, lines 139-141: the next player, or the end of the turn
PlayNext ==
    /\ At("play", "start")
    /\ IF frames[1].k < Len(player_ids)
       THEN /\ player_index' = frames[1].k
            /\ pre' = [cells |-> cells, goals |-> goals, player_ids |-> player_ids,
                       turn_cells |-> pre.turn_cells]
            /\ log' = [EmptyLog EXCEPT !.bases = <<Len(move_stack)>>]
            /\ frames' = call(S, "after", try_move_frame(player_ids[frames[1].k + 1],
                                                         direction)).frames
            /\ ret' = NoRet
            /\ UNCHANGED status
       ELSE /\ frames' = <<>>
            /\ ret' = NoRet
            /\ status' = "idle"
            /\ UNCHANGED <<player_index, pre, log>>
    /\ UNCHANGED <<cells, goals, block_map, player_ids, config, move_stack, move_index,
                   transfer_cache, transfer_stack, direction, turns, last_call, geom>>

\* play, lines 141-149: try_move has returned to play
PlayAfter ==
    /\ At("play", "after")
    /\ SetVars(play_after(S))
    /\ last_call' = Some([player_index |-> player_index, direction |-> direction,
                          result |-> ret])
TryMove == At("try_move", "start") /\ Set(try_move(S))
TryMoveAfter == At("try_move", "after_exit") /\ Set(try_move_after(S))
TryExit == At("try_exit", "start") /\ Set(try_exit(S))
TryExitAfter == At("try_exit", "after_exit") /\ Set(try_exit_after(S))
TryInteractPos == At("try_interact_pos", "start") /\ Set(try_interact_pos(S))
TryInteract == At("try_interact", "start") /\ Set(try_interact(S))
TryInteractAfter == At("try_interact", "wait") /\ Set(try_interact_after(S))
TryPush == At("try_push", "start") /\ Set(try_push(S))
TryPushAfter == At("try_push", "after_inner") /\ Set(try_push_after(S))
TryEnter == At("try_enter", "start") /\ Set(try_enter(S))
TryEat == At("try_eat", "start") /\ Set(try_eat(S))
TryEatAfter == At("try_eat", "after_enter") /\ Set(try_eat_after(S))
TryPossess == At("try_possess", "start") /\ Set(try_possess(S))

\* a call in return position: the caller returns what its callee returned
ReturnTail ==
    /\ Running
    /\ frames[Len(frames)].pc = "tail"
    /\ Set(return_tail(S))

Next ==
    \/ \E d \in Directions : Play(d)
    \/ PlayNext
    \/ PlayAfter
    \/ TryMove
    \/ TryMoveAfter
    \/ TryExit
    \/ TryExitAfter
    \/ TryInteractPos
    \/ TryInteract
    \/ TryInteractAfter
    \/ TryPush
    \/ TryPushAfter
    \/ TryEnter
    \/ TryEat
    \/ TryEatAfter
    \/ TryPossess
    \/ ReturnTail

Spec == Init /\ [][Next]_vars

\* the resolver runs to completion once started: single-threaded, no suspension
FairSpec == Spec /\ WF_vars(Next)

----------------------------------------------------------------------------
(* The transfer geometry of try_exit and try_enter on its own: a mover on   *)
(* slot c of a block side carries the point p out of the block, and the     *)
(* point it leaves with is carried into a side of the same length           *)

MaxSide == 3
MaxDenom == 4

\* the transfer points in [0, 1) with a denominator up to MaxDenom
Points ==
    LET fractions == {<<n, dn>> : n \in 0 .. (MaxDenom - 1), dn \in 1 .. MaxDenom}
    IN  {Ratio(q[1], q[2]) : q \in {r \in fractions : r[1] < r[2]}}

\* the block the mover leaves and enters
GeomBlock == Block(0, ROOT, 0, 0, 0, geom.width, geom.height, FALSE, FALSE, FALSE)

\* try_exit, line 232: the position one step beyond the side of a w x h block
BeyondSide(d, w, h) ==
    CASE d = "Up" -> {Pos(c, h) : c \in 0 .. (w - 1)}
      [] d = "Down" -> {Pos(c, -1) : c \in 0 .. (w - 1)}
      [] d = "Left" -> {Pos(-1, c) : c \in 0 .. (h - 1)}
      [] d = "Right" -> {Pos(w, c) : c \in 0 .. (h - 1)}

\* the coordinate along the side crossed in direction d
Along(pos, d) == IF Vertical(d) THEN pos[1] ELSE pos[2]

GeomInit ==
    /\ Loaded(LevelPush)
    /\ \E d \in Directions, w \in 1 .. MaxSide, h \in 1 .. MaxSide, p \in Points :
          \E pos \in BeyondSide(d, w, h) :
              geom = [NoGeom EXCEPT !.stage = "leaving", !.direction = d,
                                    !.width = w, !.height = h, !.pos = pos,
                                    !.p = p, !.point = p]

\* try_exit, lines 245-248
GeomExit ==
    /\ geom.stage = "leaving"
    /\ geom' = [geom EXCEPT !.stage = "outside",
                            !.point = ExitPoint(geom.p, geom.direction, geom.pos,
                                                GeomBlock)]
    /\ UNCHANGED <<world, sim, frames, ret, status, direction, turns, pre, log, last_call>>

\* try_enter, lines 483-499, in a direction d across a side of the same length
GeomEnter(d) ==
    /\ geom.stage = "outside"
    /\ Vertical(d) = Vertical(geom.direction)
    /\ geom' = [geom EXCEPT !.stage = "inside", !.direction = d,
                            !.landed = enter_pos(GeomBlock, d, geom.point)[1],
                            !.point = enter_pos(GeomBlock, d, geom.point)[2]]
    /\ UNCHANGED <<world, sim, frames, ret, status, direction, turns, pre, log, last_call>>

GeomNext == GeomExit \/ \E d \in Directions : GeomEnter(d)

GeomSpec == GeomInit /\ [][GeomNext]_vars

----------------------------------------------------------------------------
(* Properties *)

\* try_move, called by play for the current player, has just returned v
TryMoveReturned(v) ==
    status = "busy" /\ Len(frames) = 1 /\ frames[1].pc = "after" /\ ret = v

WorldIsPre ==
    cells = pre.cells /\ goals = pre.goals /\ player_ids = pre.player_ids

Container(i) == Cell(cells, Cell(cells, i).gpos.block_id)
AtRoot(i) == Cell(cells, i).gpos.block_id = ROOT

\* C1: when try_move for a player returns false, the cells, the goals and the
\* player ids are those of the moment play called it, by value.
C1_FailedMoveKeepsWorld ==
    (TryMoveReturned(F) \/ log.result = F) => WorldIsPre

\* a failed resolution that went through a hit of the exit cache
C1_Witness == TryMoveReturned(F) /\ log.inf_exit /\ log.push

\* C2: a step changes the gpos or fliph of an existing cell only if it is the
\* commit after try_move returned true and the cell has a record at an index
\* >= move_index; the cell then has the gpos and fliph of that record.
C2_OnlyCommitMoves ==
    [][\A i \in CellIds(cells) :
          LET recs == {k \in (move_index + 1) .. Len(move_stack) :
                          move_stack[k].cell_id = i}
          IN  IF TryMoveReturned(T) /\ recs # {} /\ status' # "panic"
              THEN /\ cells'[i + 1].gpos = move_stack[Max(recs)].gpos
                   /\ cells'[i + 1].fliph = move_stack[Max(recs)].fliph
              ELSE /\ cells'[i + 1].gpos = cells[i + 1].gpos
                   /\ cells'[i + 1].fliph = cells[i + 1].fliph]_vars

\* a commit that applied records and left out the records before move_index
C2_Witness ==
    /\ log.result = T /\ log.kept > 0 /\ log.applied > 0
    /\ \E i \in CellIds(pre.cells) : Cell(cells, i).gpos # Cell(pre.cells, i).gpos

\* C3 as claimed: between turns no two cells have the same gpos, root-level
\* cells and space backdrops included.
C3_AllCellsDistinct ==
    status = "idle" =>
        \A i, j \in CellIds(cells) : i # j => Cell(cells, i).gpos # Cell(cells, j).gpos

\* C3 as amended: no two cells inside a block have the same gpos.
C3_CellsInBlocksDistinct ==
    \A i, j \in CellIds(cells) :
        (i # j /\ ~AtRoot(i)) => Cell(cells, i).gpos # Cell(cells, j).gpos

\* after a turn that made a backdrop: two root cells on one gpos, and cells
\* that share a block
C3_Witness ==
    /\ status = "idle" /\ turns > 0 /\ log.made > 0
    /\ \E i, j \in CellIds(cells) :
          i # j /\ AtRoot(i) /\ Cell(cells, i).space
                /\ Cell(cells, i).gpos = Cell(cells, j).gpos
    /\ \E i, j \in CellIds(cells) :
          i # j /\ ~AtRoot(i)
                /\ Cell(cells, i).gpos.block_id = Cell(cells, j).gpos.block_id

\* C4: between turns every cell inside a block lies within the block's bounds.
C4_CellsInBounds ==
    status = "idle" =>
        \A i \in CellIds(cells) :
            ~AtRoot(i) => in_bounds(Container(i), Cell(cells, i).gpos.pos)

\* C5: every reference, the inf exits made during a resolution included, has a
\* target_no that block_map maps to a block.
C5_ReferenceTargets ==
    \A i \in CellIds(cells) :
        is_reference(Cell(cells, i)) =>
            /\ Cell(cells, i).target_no \in DOMAIN block_map
            /\ is_block(Cell(cells, block_map[Cell(cells, i).target_no]))

\* an inf exit reference made by the resolver is among the cells
C5_Witness ==
    /\ log.inf_exit /\ log.made > 0
    /\ \E i \in CellIds(cells) \ CellIds(pre.cells) :
          is_reference(Cell(cells, i)) /\ Cell(cells, i).inf_exit # None

\* player_ids differs from the list at the call of try_move only by a
\* possession of the current player, at its index, by the possessed target
PlayersChangeByPossession ==
    /\ Len(player_ids) = Len(pre.player_ids)
    /\ \A k \in 1 .. Len(player_ids) :
          player_ids[k] # pre.player_ids[k] =>
              /\ k = player_index + 1
              /\ log.possessed
              /\ player_ids[k] = log.target
              /\ Cell(cells, player_ids[k]).possessable

\* C6 as claimed: every player id is an existing possessable cell, and
\* player_ids changes only by possession.
C6_PlayersPossessable ==
    /\ \A k \in 1 .. Len(player_ids) :
          ValidId(cells, player_ids[k]) /\ Cell(cells, player_ids[k]).possessable
    /\ PlayersChangeByPossession

\* C6 as amended: every player id is an existing cell, possessable when a
\* possession put it there, and player_ids changes only by possession.
C6_PlayersExist ==
    /\ \A k \in 1 .. Len(player_ids) : ValidId(cells, player_ids[k])
    /\ PlayersChangeByPossession

\* the player that the level registered without the possessable flag has
\* possessed a cell
C6_Witness ==
    /\ log.possessed /\ log.result = T
    /\ player_ids # pre.player_ids
    /\ \E k \in 1 .. Len(pre.player_ids) : ~Cell(cells, pre.player_ids[k]).possessable

\* C7: no handler panics: every resolution yields true or false.
C7_NoPanic == status # "panic"

\* C8: a call of play ends.
C8_PlayTerminates == (status = "busy") ~> (status # "busy")

\* a turn whose resolution went through a hit of the exit cache has ended
C8_Witness == status = "idle" /\ turns > 0 /\ log.inf_exit /\ log.result = T

\* C10: when try_move returned false for a player, the next call, for the same
\* player and direction, does not return true.
C10_FailsAgain ==
    (TryMoveReturned(T) /\ last_call # None) =>
        ~(/\ last_call[1].player_index = player_index
          /\ last_call[1].direction = direction
          /\ last_call[1].result = F)

\* the second of two failed calls in a row for one player and direction
C10_Witness ==
    /\ TryMoveReturned(F)
    /\ last_call = Some([player_index |-> player_index, direction |-> direction,
                         result |-> F])

\* C11: a point p carried out of slot c of a side of length S, (p + c) / S,
\* and into a side of length S without a flip lands on slot c with the
\* residual point p.
C11_RoundTrip ==
    geom.stage = "inside" =>
        /\ Along(geom.landed, geom.direction) = Along(geom.pos, geom.direction)
        /\ geom.point = geom.p

\* the point 2/3 has gone out of the last slot of a side of length 3 and in again
C11_Witness ==
    /\ geom.stage = "inside" /\ geom.p = <<2, 3>>
    /\ Along(geom.pos, geom.direction) = 2
    /\ IF Vertical(geom.direction) THEN geom.width = 3 ELSE geom.height = 3

\* the resolution of the current player has returned, or play has gone through
\* its commit and clear
Resolved == TryMoveReturned(T) \/ TryMoveReturned(F) \/ log.result # NoRet
Result == IF log.result # NoRet THEN log.result ELSE ret

\* the current player and its container at the call of try_move
Mover == Cell(pre.cells, pre.player_ids[player_index + 1])
MoverBlock == Cell(pre.cells, Mover.gpos.block_id)

\* the player stood on the edge of its container and pressed outward
PressedOutward ==
    /\ Mover.gpos.block_id # ROOT
    /\ ~in_bounds(MoverBlock, go(Mover.gpos.pos, direction))

\* C12: a player on the edge of its container pressing outward, the container
\* having no exit portal (a space, or a root block that no exit reference
\* targets): try_move returns false and the player keeps its gpos and fliph.
C12_NoExitNoMove ==
    (Resolved /\ PressedOutward /\ exit_id_for(pre.cells, MoverBlock) = None) =>
        /\ Result = F
        /\ Cell(cells, Mover.id).gpos = Mover.gpos
        /\ Cell(cells, Mover.id).fliph = Mover.fliph

\* the floating player has walked to the edge of its space and pressed on
C12_Witness ==
    /\ Resolved /\ PressedOutward /\ MoverBlock.space /\ log.result = F
    /\ Mover.gpos.pos # SPACE_CENTER

\* every cell of the world at the call of try_move has its gpos and fliph
CellsKept ==
    \A i \in CellIds(pre.cells) :
        /\ Cell(cells, i).gpos = Cell(pre.cells, i).gpos
        /\ Cell(cells, i).fliph = Cell(pre.cells, i).fliph

\* a push gave up on a wall, and no enter, eat or possess handed on a true
BlockedPush ==
    /\ Resolved /\ log.blocked_at > 0
    /\ ~log.enter_ok /\ ~log.eat_ok /\ ~log.possessed

\* C13 as claimed: a chain of pushes reaches a wall that cannot be pushed and
\* no enter, eat or possess succeeds: try_move returns false and no cell
\* changes gpos or fliph.
C13_BlockedPushFails == BlockedPush => (Result = F /\ CellsKept)

\* C13 as amended: the same, when also no shed move of try_exit succeeds.
C13_BlockedPushFailsUnlessShed ==
    (BlockedPush /\ ~log.shed_ok) => (Result = F /\ CellsKept)

\* a player and the box it pushed were on the move stack when the wall
\* refused the push, and the resolution has failed
C13_Witness ==
    /\ BlockedPush /\ ~log.shed_ok /\ log.blocked_at >= 2 /\ log.result = F
    /\ config.shed

\* try_enter, called on state s, returns false itself
Refuses(s) ==
    \E r \in {try_enter(s)} :
        r.status = s.status /\ r.frames = Front(s.frames) /\ r.ret = F

\* s with the block of cell id locked
Locked(s, id) == [s EXCEPT !.cells[id + 1].locked = TRUE]

EnterTarget == Cell(cells, frames[Len(frames)].target)
BlockToEnter == block_to_enter(S, EnterTarget)

EnterProceeds ==
    /\ At("try_enter", "start")
    /\ BlockToEnter.tag = "ok"
    /\ ~Cell(cells, BlockToEnter.id).filled

\* the direction of the mover once the cell met has flipped it
EnterDirection ==
    IF fliph(EnterTarget) THEN flip_direction(frames[Len(frames)].cur.direction)
    ELSE frames[Len(frames)].cur.direction

\* the point of the mover once the cell met has flipped it
EnterPoint ==
    IF fliph(EnterTarget) /\ Vertical(frames[Len(frames)].cur.direction)
    THEN RatSub(ONE_POINT, frames[Len(frames)].point)
    ELSE frames[Len(frames)].point

\* the entries of the enter cache with the mover's (block_no, direction, point)
EnterHits ==
    {i \in 1 .. Len(transfer_cache.enter) :
        /\ transfer_cache.enter[i].block_no = Cell(cells, BlockToEnter.id).block_no
        /\ transfer_cache.enter[i].direction = EnterDirection
        /\ transfer_cache.enter[i].point = EnterPoint}

\* the mover of the frame on top of the next state is in the block tagged
\* inf_enter = (no, degree)
EnteredInfEnter(no, degree) ==
    \E g \in {frames'[Len(frames')].cur.gpos} :
        /\ frames'[Len(frames')].fn = "try_interact_pos"
        /\ ValidId(cells', g.block_id)
        /\ cells'[g.block_id + 1].inf_enter = Some(<<no, degree>>)

\* the block that mover is in, its position there, and whether the step made it
Entered == cells'[frames'[Len(frames')].cur.gpos.block_id + 1]
EnteredPos == frames'[Len(frames')].cur.gpos.pos
EnteredIsNew == ~ValidId(cells, frames'[Len(frames')].cur.gpos.block_id)

\* the middle cell of the edge of a w x h block that a mover going d comes in by
EdgeMiddle(d, w, h) ==
    CASE d = "Up" -> Pos(w \div 2, 0)
      [] d = "Down" -> Pos(w \div 2, h - 1)
      [] d = "Left" -> Pos(w - 1, h \div 2)
      [] d = "Right" -> Pos(0, h \div 2)

\* the first press, Right, of the self-enter level is over
SelfEnterPressed ==
    /\ status = "idle" /\ turns = 1 /\ direction = "Right"
    /\ pre.cells = LevelSelfEnter.cells

\* C15 as claimed: on a hit of the enter cache the mover goes to the center
\* (2,2) of the 5 x 5 block tagged inf_enter = (block_no, degree); in the
\* self-enter level the player ends the first press on (2,2) of the block
\* tagged (1, 0).
C15_InfEnterCenter ==
    /\ [][(EnterProceeds /\ EnterHits # {}) =>
             /\ EnteredInfEnter(Cell(cells, BlockToEnter.id).block_no,
                                transfer_cache.enter[Min(EnterHits)].degree)
             /\ Entered.width = 5 /\ Entered.height = 5
             /\ EnteredPos = Pos(2, 2)]_vars
    /\ [](SelfEnterPressed =>
             /\ Container(player_ids[1]).inf_enter = Some(<<1, 0>>)
             /\ Cell(cells, player_ids[1]).gpos.pos = Pos(2, 2))

\* C15 as amended: the mover goes to the middle cell of the edge it comes in
\* by; the block is 5 x 5 when this try_enter made it, the cell then (0,2)
\* for a mover going Right; the player of the self-enter level ends the
\* first press there.
C15_InfEnterEdge ==
    /\ [][(EnterProceeds /\ EnterHits # {}) =>
             /\ EnteredInfEnter(Cell(cells, BlockToEnter.id).block_no,
                                transfer_cache.enter[Min(EnterHits)].degree)
             /\ EnteredIsNew => (Entered.width = 5 /\ Entered.height = 5)
             /\ EnteredPos = EdgeMiddle(EnterDirection, Entered.width,
                                        Entered.height)]_vars
    /\ [](SelfEnterPressed =>
             /\ Container(player_ids[1]).inf_enter = Some(<<1, 0>>)
             /\ Cell(cells, player_ids[1]).gpos.pos = Pos(0, 2))

\* the first press of the self-enter level has made the inf enter block and
\* left the player in it
C15_Witness ==
    /\ SelfEnterPressed /\ log.inf_enter /\ log.made = 2 /\ log.result = T
    /\ Container(player_ids[1]).inf_enter # None

\* the position one step on from the mover of the try_exit frame on top
ExitMoved == go(frames[Len(frames)].cur.gpos.pos, frames[Len(frames)].cur.direction)
ExitBlock == Cell(cells, frames[Len(frames)].cur.gpos.block_id)
ExitPortal == Cell(cells, exit_id_for(cells, ExitBlock)[1])
ExitContextNo ==
    IF is_block(ExitPortal) THEN ExitPortal.block_no ELSE ExitPortal.target_no

\* try_exit is about to run, the mover leaves its block, and the block has an exit
ExitProceeds ==
    /\ At("try_exit", "start")
    /\ ValidId(cells, frames[Len(frames)].cur.gpos.block_id)
    /\ is_block(ExitBlock) /\ ~in_bounds(ExitBlock, ExitMoved)
    /\ exit_id_for(cells, ExitBlock) # None
    /\ ~is_wall(ExitPortal)

\* the entries of the exit cache with the mover's (context_no, direction)
ExitHits ==
    {i \in 1 .. Len(transfer_cache.exit) :
        /\ transfer_cache.exit[i].block_no = ExitContextNo
        /\ transfer_cache.exit[i].direction = frames[Len(frames)].cur.direction}

\* the inf exits of the context for the degree of the entry found
InfExits ==
    {i \in CellIds(cells) :
        /\ is_reference(Cell(cells, i))
        /\ Cell(cells, i).target_no = ExitContextNo
        /\ Cell(cells, i).inf_exit = Some(transfer_cache.exit[Min(ExitHits)].degree)}

\* the exit portal the step has chosen, kept by the frame that ran
ExitUsed == cells'[frames'[Len(frames)].exit_id + 1]

\* the exit used is the inf exit of the context for the degree of the entry
UsesInfExit ==
    /\ ValidId(cells', frames'[Len(frames)].exit_id)
    /\ is_reference(ExitUsed)
    /\ ExitUsed.target_no = ExitContextNo
    /\ ~ExitUsed.exit
    /\ ExitUsed.inf_exit = Some(transfer_cache.exit[Min(ExitHits)].degree)

\* the exit used sits on the center of a space
InSpaceCenter ==
    /\ ExitUsed.gpos.pos = SPACE_CENTER
    /\ is_space(cells', ExitUsed.gpos.block_id)

\* a reference and its backdrop are made exactly when no inf exit was there
MadeIfMissing ==
    IF InfExits = {}
    THEN /\ Len(cells') = Len(cells) + 2
         /\ ExitUsed.id = Len(cells) + 1
         /\ ExitUsed.gpos.block_id = Len(cells)
         /\ SubSeq(cells', 1, Len(cells)) = cells
    ELSE cells' = cells

\* a resolution of the self-exit level has gone through a hit of the exit cache
SelfExitHit == log.inf_exit /\ SubSeq(pre.cells, 1, 3) = LevelSelfExit.cells

\* C16 as claimed: on a hit of the exit cache the exit used is a reference
\* with target_no = context_no, exit = false, inf_exit = Some(degree), on the
\* center of a space, made with its backdrop if there was none; in the
\* self-exit level a cell with inf_exit = Some(0) exists from then on.
C16_InfExitInSpace ==
    /\ [][(ExitProceeds /\ ExitHits # {}) =>
             (UsesInfExit /\ InSpaceCenter /\ MadeIfMissing)]_vars
    /\ [](SelfExitHit =>
             \E i \in CellIds(cells) : Cell(cells, i).inf_exit = Some(0))

\* C16 as amended: the same, the reference being on the center of a space
\* when the step makes it.
C16_InfExitMadeInSpace ==
    /\ [][(ExitProceeds /\ ExitHits # {}) =>
             /\ UsesInfExit /\ MadeIfMissing
             /\ InfExits = {} => InSpaceCenter]_vars
    /\ [](SelfExitHit =>
             \E i \in CellIds(cells) : Cell(cells, i).inf_exit = Some(0))

\* the first press of the self-exit level that hit the exit cache has made
\* the reference and its backdrop, and is over
C16_Witness ==
    /\ Resolved /\ log.inf_exit /\ log.made = 2
    /\ pre.cells = LevelSelfExit.cells
    /\ \E i \in CellIds(cells) \ CellIds(pre.cells) : Cell(cells, i).inf_exit = Some(0)

\* C17: a resolution that ends by possession changes the gpos and fliph of
\* no cell and puts the target's id at the current player's index, the
\* target being possessable and no player; try_possess returns false, with
\* player_ids as they were, when the acting cell is not the current player,
\* the target is not possessable, or the target is a player already.
C17_PossessMovesNothing ==
    /\ []((Resolved /\ log.possessed) =>
             /\ Result = T
             /\ CellsKept
             /\ player_ids = [pre.player_ids EXCEPT ![player_index + 1] = log.target]
             /\ Cell(pre.cells, log.target).possessable
             /\ \A k \in 1 .. Len(pre.player_ids) : pre.player_ids[k] # log.target)
    /\ [][(/\ At("try_possess", "start")
           /\ \/ frames[Len(frames)].cell_id # player_ids[player_index + 1]
              \/ ~Cell(cells, frames[Len(frames)].target).possessable
              \/ \E k \in 1 .. Len(player_ids) :
                    player_ids[k] = frames[Len(frames)].target)
          => (frames' = Front(frames) /\ ret' = F /\ player_ids' = player_ids)]_vars

\* the player had pushed against the cell, its record stood on the cell's
\* slot, and the turn has ended by possession
C17_Witness ==
    /\ log.possessed /\ log.result = T /\ log.push /\ log.applied = 0
    /\ player_ids # pre.player_ids

\* the position of action a in attempt_order
OrderOf(a) == Min({k \in 1 .. Len(config.attempt_order) : config.attempt_order[k] = a})

\* the slot the player pressed toward, in its own block
FacedSlot == GlobalPos(Mover.gpos.block_id, go(Mover.gpos.pos, direction))

\* the player pressed toward a non-wall cell of its block, eat coming before push
FacedNonWall ==
    /\ OrderOf("Eat") < OrderOf("Push")
    /\ Mover.gpos.block_id # ROOT
    /\ cell_at(pre.cells, FacedSlot) # None
    /\ ~is_wall(Cell(pre.cells, cell_at(pre.cells, FacedSlot)[1]))

Faced == Cell(pre.cells, cell_at(pre.cells, FacedSlot)[1])

\* the block a mover gets into by entering cell c
EnteredThrough(c) == IF is_block(c) THEN c.id ELSE block_map[c.target_no]

\* cell i lies in block b, or in a block that lies in b, n levels at most
RECURSIVE InsideOf(_, _, _)
InsideOf(i, b, n) ==
    /\ n > 0
    /\ ValidId(cells, Cell(cells, i).gpos.block_id)
    /\ \/ Cell(cells, i).gpos.block_id = b
       \/ InsideOf(Cell(cells, i).gpos.block_id, b, n - 1)

\* the player stands on slot g and cell i has ended inside the player
Eaten(i, g) ==
    /\ Cell(cells, Mover.id).gpos = g
    /\ InsideOf(i, EnteredThrough(Mover), Len(cells))

\* C18 as claimed: with eat before push, a player pressing toward a non-wall
\* cell eats it in one commit (the player on the cell's slot, the cell inside
\* the block entered through the player), or neither cell moves.
C18_EatOrNothing ==
    (log.result # NoRet /\ FacedNonWall) =>
        \/ Eaten(Faced.id, Faced.gpos)
        \/ /\ Cell(cells, Mover.id).gpos = Mover.gpos
           /\ Cell(cells, Faced.id).gpos = Faced.gpos

\* C18 as amended: when try_eat succeeds for the player, the commit that
\* starts at the player's record puts the player on the cell's slot and the
\* cell inside the block entered through the player; try_eat sends the cell
\* into the player cell with the direction opposite to the eater's at point
\* 1/2, and takes the cell's record back when that enter fails.
C18_EatWhenItSucceeds ==
    /\ []((log.result = T /\ log.eat_ok /\ log.eater = Mover.id /\ log.kept = 0) =>
             Eaten(log.eaten, Cell(pre.cells, log.eaten).gpos))
    /\ [][(At("try_eat", "start") /\ Len(frames') > Len(frames)) =>
             \E g \in {frames'[Len(frames')]} :
                 /\ g.fn = "try_enter"
                 /\ g.target = frames[Len(frames)].cur.cell_id
                 /\ g.point = MIDDLE_POINT
                 /\ g.cur.cell_id = frames[Len(frames)].target
                 /\ (frames[Len(frames)].cur.fliph
                        = fliph(Cell(cells, frames[Len(frames)].cur.cell_id))) =>
                       g.cur.direction = opposite(frames[Len(frames)].cur.direction)]_vars
    /\ [][(At("try_eat", "after_enter") /\ ret = F) =>
             (move_stack' = Front(move_stack) /\ ret' = F)]_vars

\* the player of the eat level has eaten the box: it stands where the box
\* stood, and the box is inside it
C18_Witness ==
    /\ log.result = T /\ log.eat_ok /\ log.eater = Mover.id /\ log.kept = 0
    /\ log.applied = 2 /\ FacedNonWall
    /\ Cell(cells, log.eaten).gpos.block_id = Mover.id

\* the mover and the point of the try_enter frame on top, and the frame the
\* step puts on top of it
Entering == frames[Len(frames)].cur
EnteringPoint == frames[Len(frames)].point
Landing == frames'[Len(frames')]
EnteredBlock == Cell(cells, BlockToEnter.id)

\* C19: a mover going Right that enters a flipped cell on a miss of the enter
\* cache goes Left, lands in column W - 1 at row floor(p * H), keeps p for
\* that, and has its tentative fliph negated; a mover going Up or Down keeps
\* its direction, and its column is that of the point 1 - p.
C19_FlippedEnter ==
    [][(EnterProceeds /\ fliph(EnterTarget) /\ EnterHits = {}) =>
          /\ Landing.fn = "try_interact_pos"
          /\ Landing.cur.gpos.block_id = EnteredBlock.id
          /\ Landing.cur.fliph = ~Entering.fliph
          /\ Entering.direction = "Right" =>
                /\ Landing.cur.direction = "Left"
                /\ Landing.cur.gpos.pos =
                      Pos(EnteredBlock.width - 1,
                          (EnteringPoint[1] * EnteredBlock.height) \div EnteringPoint[2])
          /\ Vertical(Entering.direction) =>
                /\ Landing.cur.direction = Entering.direction
                /\ Landing.cur.gpos.pos[1] =
                      ((EnteringPoint[2] - EnteringPoint[1]) * EnteredBlock.width)
                          \div EnteringPoint[2]]_vars

\* a mover that went Right has entered a flipped cell: it goes Left, flipped,
\* from the last column of the block
C19_Witness ==
    /\ At("try_interact_pos", "start") /\ Len(frames) > 1
    /\ frames[Len(frames) - 1].fn = "try_enter"
    /\ frames[Len(frames) - 1].cur.direction = "Right"
    /\ fliph(Cell(cells, frames[Len(frames) - 1].target))
    /\ frames[Len(frames)].cur.direction = "Left"
    /\ frames[Len(frames)].cur.fliph
    /\ frames[Len(frames)].cur.gpos.pos[1] = 1

\* cell p of the cells cs, in a block, faces in direction d a non-wall cell
\* of that block whose next slot in d is a free slot of the block
FacesPushable(cs, p, d) ==
    \E at \in {GlobalPos(Cell(cs, p).gpos.block_id, go(Cell(cs, p).gpos.pos, d))},
       beyond \in {GlobalPos(Cell(cs, p).gpos.block_id,
                             go(go(Cell(cs, p).gpos.pos, d), d))} :
        /\ Cell(cs, p).gpos.block_id # ROOT
        /\ cell_at(cs, at) # None
        /\ ~is_wall(Cell(cs, cell_at(cs, at)[1]))
        /\ in_bounds(Cell(cs, Cell(cs, p).gpos.block_id), beyond.pos)
        /\ cell_at(cs, beyond) = None

\* the cell that p faces
FacedBy(cs, p, d) ==
    cell_at(cs, GlobalPos(Cell(cs, p).gpos.block_id, go(Cell(cs, p).gpos.pos, d)))[1]

\* from the cells cs to now, p and the cell it faced have gone one step in d
\* and every other cell has kept its gpos and fliph
PushedOne(cs, p, d) ==
    \A i \in CellIds(cs) :
        /\ Cell(cells, i).fliph = Cell(cs, i).fliph
        /\ Cell(cells, i).gpos =
              IF i = p \/ i = FacedBy(cs, p, d)
              THEN GlobalPos(Cell(cs, i).gpos.block_id, go(Cell(cs, i).gpos.pos, d))
              ELSE Cell(cs, i).gpos

\* one press, Right, of the simple push level is over
SimplePushPressed ==
    /\ status = "idle" /\ turns = 1 /\ direction = "Right"
    /\ pre.turn_cells = LevelSimplePush.cells

\* C20 as claimed: with the default order, for a player that faces a non-wall
\* cell with a free slot of the block behind it, play(d) moves the player
\* and that cell one step in d and no other cell; one press Right of the
\* simple push level makes won() true.
C20_PlayPushesOne ==
    /\ (status = "idle" /\ turns > 0 /\ config.attempt_order = DefaultOrder) =>
          \A k \in 1 .. Len(pre.player_ids) :
              FacesPushable(pre.turn_cells, pre.player_ids[k], direction) =>
                  PushedOne(pre.turn_cells, pre.player_ids[k], direction)
    /\ SimplePushPressed => won(cells, goals, player_ids)

\* C20 as amended: the same of the part of play(d) that is this player's:
\* its try_move returns true and its commit moves the two cells.
C20_PlayerPushesOne ==
    /\ (/\ log.result # NoRet /\ config.attempt_order = DefaultOrder
        /\ FacesPushable(pre.cells, Mover.id, direction)) =>
          (log.result = T /\ PushedOne(pre.cells, Mover.id, direction))
    /\ SimplePushPressed => won(cells, goals, player_ids)

\* the press Right of the simple push level is over: the box is on the
\* button, and the level was not won before
C20_Witness ==
    /\ SimplePushPressed /\ log.result = T /\ log.applied = 2
    /\ FacesPushable(pre.cells, Mover.id, direction)
    /\ Cell(cells, 18).gpos = goals[1].gpos
    /\ ~won(pre.cells, goals, player_ids)

\* the levels of the model that come with a solution, the one press Right:
\* the simple push level and LevelPush
SolvedByRight == {LevelSimplePush.cells, LevelPush.cells}

IsPlayer(i) == \E j \in 1 .. Len(player_ids) : player_ids[j] = i

\* the cells on the gpos of a goal
Occupants(g) == {i \in CellIds(cells) : Cell(cells, i).gpos = g.gpos}

\* C21: won() is true exactly when there is a goal and every goal's gpos is
\* occupied, by a cell that is a player if and only if the goal asks for a
\* player; a level with a solution is not won before the last press of the
\* solution and is won after it.
C21_WonPredicate ==
    /\ won(cells, goals, player_ids) <=>
          /\ goals # <<>>
          /\ \A k \in 1 .. Len(goals) :
                /\ Occupants(goals[k]) # {}
                /\ \A i \in Occupants(goals[k]) : IsPlayer(i) <=> goals[k].player
    /\ (turns = 0 /\ cells \in SolvedByRight) => ~won(cells, goals, player_ids)
    /\ (/\ status = "idle" /\ turns = 1 /\ direction = "Right"
        /\ pre.turn_cells \in SolvedByRight) => won(cells, goals, player_ids)

\* LevelPush after its solution: won, and not won before the press
C21_Witness ==
    /\ status = "idle" /\ turns = 1 /\ direction = "Right"
    /\ pre.turn_cells = LevelPush.cells
    /\ won(cells, goals, player_ids)
    /\ ~won(pre.turn_cells, goals, pre.player_ids)

\* the simulator between two players: nothing tentative is left
SimulatorCleared ==
    /\ move_stack = <<>> /\ move_index = 0
    /\ transfer_cache = EmptyCache /\ transfer_stack = <<>>

\* the steps of the loop of play: a call of try_move for the player at index k,
\* k being the number of calls that have returned, made with a cleared
\* simulator on the cells as they are; after the call a commit if it returned
\* true and no change of the cells if not, then k + 1; the end of play at
\* k = len; and no other step touches the frame of play.
PlayLoopSteps ==
    [][/\ (At("play", "start") /\ frames[1].k < Len(player_ids)) =>
            /\ SimulatorCleared
            /\ Len(frames') = 2
            /\ frames'[2] = try_move_frame(player_ids[frames[1].k + 1], direction)
            /\ frames'[1].k = frames[1].k
            /\ player_index' = frames[1].k
            /\ cells' = cells /\ player_ids' = player_ids
       /\ (At("play", "start") /\ frames[1].k >= Len(player_ids)) =>
            (status' = "idle" /\ frames[1].k = Len(player_ids))
       /\ (status = "busy" /\ status' = "idle") => At("play", "start")
       /\ (status = "idle" /\ status' = "busy") =>
            (frames' = <<Frame("play")>> /\ SimulatorCleared' /\ cells' = cells)
       /\ ((TryMoveReturned(T) \/ TryMoveReturned(F)) /\ status' # "panic") =>
            /\ frames' = <<[frames[1] EXCEPT !.pc = "start", !.k = @ + 1]>>
            /\ SimulatorCleared'
            /\ cells' = IF ret = T
                        THEN apply_all(cells, SubSeq(move_stack, move_index + 1,
                                                     Len(move_stack)))
                        ELSE cells
       /\ (status = "busy" /\ Len(frames) >= 2) => frames'[1] = frames[1]]_vars

\* C22: play calls try_move once for every index of player_ids, in increasing
\* order, with the player id found at that index then, on a cleared simulator
\* and the world as committed so far; it commits after true and goes on to
\* the next player after true and after false.  No play is broken off before
\* the call for the last index.
C22_EveryPlayerOnce ==
    /\ PlayLoopSteps
    /\ [](status = "panic" => player_index + 1 = Len(player_ids))

\* the records of the move stack, by 0-based index, of the cell that the
\* try_move about to run is called for
RecordsOfMoved ==
    {i \in 0 .. (Len(move_stack) - 1) :
        move_stack[i + 1].cell_id = frames[Len(frames)].cell_id}

\* C23: try_move for a cell with a record at index i returns true with
\* move_index = i exactly when i >= move_index and the record has the
\* direction of the call, and false with move_index as it was otherwise;
\* either way the move stack, the transfer stack and the cells are untouched.
C23_CycleCheck ==
    [][At("try_move", "start") =>
          \A i \in RecordsOfMoved :
              LET closes == /\ i >= move_index
                            /\ move_stack[i + 1].direction = frames[Len(frames)].direction
              IN  /\ ret' = (IF closes THEN T ELSE F)
                  /\ move_index' = (IF closes THEN i ELSE move_index)
                  /\ move_stack' = move_stack
                  /\ transfer_stack' = transfer_stack
                  /\ transfer_cache' = transfer_cache
                  /\ cells' = cells
                  /\ frames' = Front(frames)]_vars

\* a cycle closed at a record above the bottom of the stack and committed from
\* there on, in a resolution that also met a record it could not close on
C23_Witness ==
    /\ log.result = T /\ log.again_ok > 0 /\ log.kept = log.again_ok
    /\ log.applied > 0
    /\ log.again_err # ROOT

\* the handler of an action type, as a frame for the mover and target of the
\* try_interact frame f
HandlerFrame(action_type, f) ==
    CASE action_type = "Push" -> try_push_frame(f.cur, f.target)
      [] action_type = "Enter" -> try_enter_frame(f.cur, f.target, f.point)
      [] action_type = "Eat" -> try_eat_frame(f.cur, f.target)
      [] action_type = "Possess" -> try_possess_frame(f.cur.cell_id, f.target)

\* the target of the try_interact on top has a record at an index >= move_index
TargetIsMoving ==
    \E i \in move_index .. (Len(move_stack) - 1) :
        move_stack[i + 1].cell_id = frames[Len(frames)].target

\* a call has just been made from the frame on top
Calls(callee) ==
    /\ Len(frames') = Len(frames) + 1
    /\ frames'[Len(frames')] = callee
    /\ SubSeq(frames', 1, Len(frames) - 1) = Front(frames)

\* the frame on top returns v
Returns(v) == frames' = Front(frames) /\ ret' = v

\* C24: try_interact starts with the first entry of attempt_order and calls
\* the handler of the k-th entry only after the k - 1 before it have failed;
\* it returns true as soon as a handler has returned true and false after
\* the last has failed; for Enter on a target with a record at an index
\* >= move_index it calls nothing and goes on as after a failure.
C24_AttemptOrder ==
    [][/\ \A fn \in {"try_interact_pos", "try_enter"} :
            (At(fn, "start") /\ Len(frames') = Len(frames) + 1
                /\ frames'[Len(frames')].fn = "try_interact") =>
              frames'[Len(frames')].k = 0
       /\ At("try_interact", "start") =>
            LET f == frames[Len(frames)]
            IN  IF f.k >= Len(config.attempt_order) THEN Returns(F)
                ELSE IF config.attempt_order[f.k + 1] = "Enter" /\ TargetIsMoving
                THEN /\ frames' = [frames EXCEPT ![Len(frames)].pc = "wait"]
                     /\ ret' = F
                     /\ move_stack' = move_stack /\ cells' = cells
                     /\ move_index' = move_index /\ transfer_cache' = transfer_cache
                ELSE /\ Calls(HandlerFrame(config.attempt_order[f.k + 1], f))
                     /\ frames'[Len(frames)] = [f EXCEPT !.pc = "wait"]
       /\ At("try_interact", "wait") =>
            IF ret = T THEN Returns(T)
            ELSE /\ ret = F
                 /\ frames' = [frames EXCEPT ![Len(frames)].pc = "start",
                                              ![Len(frames)].k = @ + 1]]_vars

\* a resolution with an order of its own in which an Enter was passed over for
\* a moving target and a later handler returned true
C24_Witness ==
    /\ log.result = T /\ log.applied > 0
    /\ log.enter_skipped /\ log.push
    /\ config.attempt_order # DefaultOrder

\* the point try_enter turns into a coordinate: 1/2 on a hit of the enter
\* cache, otherwise the point of the mover once the cell met has flipped it
EnterPointUsed == IF EnterHits # {} THEN MIDDLE_POINT ELSE EnterPoint

\* floor(p * side) and the residual p * side - floor(p * side)
FloorOf(p, side) == (p[1] * side) \div p[2]
ResidualOf(p, side) == Ratio((p[1] * side) % p[2], p[2])

\* the mover of a try_enter lands in the block with the coordinate along the
\* edge and the point that are floor and residual of p * S
LandsAlong ==
    LET side == IF Vertical(EnterDirection) THEN Entered.width ELSE Entered.height
        coord == IF Vertical(EnterDirection) THEN EnteredPos[1] ELSE EnteredPos[2]
    IN  /\ Landing.fn = "try_interact_pos"
        /\ Landing.cur.direction = EnterDirection
        /\ coord = FloorOf(EnterPointUsed, side)
        /\ Landing.point = ResidualOf(EnterPointUsed, side)

\* C25 as claimed: the mover lands on the edge Down -> y = 0, Up -> y = H - 1,
\* Right -> x = 0, Left -> x = W - 1 of the entered block, the other
\* coordinate floor(p * S), and goes on with the residual of p * S.
C25_EnterEdgeDownZero ==
    [][EnterProceeds =>
          /\ LandsAlong
          /\ CASE EnterDirection = "Down" -> EnteredPos[2] = 0
               [] EnterDirection = "Up" -> EnteredPos[2] = Entered.height - 1
               [] EnterDirection = "Right" -> EnteredPos[1] = 0
               [] EnterDirection = "Left" -> EnteredPos[1] = Entered.width - 1]_vars

\* C25 as amended: the edges are Up -> y = 0, Down -> y = H - 1, Right -> x = 0,
\* Left -> x = W - 1: the edge the mover comes in by, y growing upward.
C25_EnterEdgeUpZero ==
    [][EnterProceeds =>
          /\ LandsAlong
          /\ CASE EnterDirection = "Up" -> EnteredPos[2] = 0
               [] EnterDirection = "Down" -> EnteredPos[2] = Entered.height - 1
               [] EnterDirection = "Right" -> EnteredPos[1] = 0
               [] EnterDirection = "Left" -> EnteredPos[1] = Entered.width - 1]_vars

\* a mover going Up has entered a block two high and stands on its row 0
C25_Witness ==
    /\ At("try_interact_pos", "start") /\ Len(frames) > 1
    /\ frames[Len(frames) - 1].fn = "try_enter"
    /\ frames[Len(frames)].cur.direction = "Up"
    /\ Cell(cells, frames[Len(frames)].cur.gpos.block_id).height = 2
    /\ frames[Len(frames)].cur.gpos.pos[2] = 0

\* a rational p with 0 <= p < 1
InUnit(p) == p[1] >= 0 /\ p[1] < p[2]

\* the entries of the transfer cache and of the caches saved on the transfer stack
CachedStates ==
    {transfer_cache.exit[i] : i \in 1 .. Len(transfer_cache.exit)}
        \cup {transfer_cache.enter[i] : i \in 1 .. Len(transfer_cache.enter)}
        \cup UNION {{transfer_stack[k].exit[i] : i \in 1 .. Len(transfer_stack[k].exit)}
                        \cup {transfer_stack[k].enter[i] :
                                  i \in 1 .. Len(transfer_stack[k].enter)} :
                    k \in 1 .. Len(transfer_stack)}

\* C26: every transfer point of a resolution is a rational p with
\* 0 <= p < 1: the points the calls of try_exit, try_enter, try_interact_pos
\* and try_interact are made with, residuals and flipped points among them,
\* and the points try_exit and try_enter compute and record in the caches.
C26_PointsInUnit ==
    /\ \A k \in 1 .. Len(frames) : InUnit(frames[k].point)
    /\ \A st \in CachedStates : InUnit(st.point)

\* the point try_exit computes for the mover that leaves its block
ExitPointComputed ==
    ExitPoint(frames[Len(frames)].point, frames[Len(frames)].cur.direction,
              ExitMoved, ExitBlock)

\* the hits made on the mover's exit key while the current cache was in use
ExitHitsSoFar ==
    {i \in 1 .. Len(transfer_cache.exit_hits) :
        transfer_cache.exit_hits[i] =
            <<ExitContextNo, frames[Len(frames)].cur.direction>>}

\* a miss of the exit cache: an entry of degree 0 with what was just
\* computed is recorded, the ordinary portal is used, no cell is made
ExitMissRecords ==
    /\ transfer_cache'.exit =
          Append(transfer_cache.exit,
                 TransferState(ExitContextNo, frames[Len(frames)].cur.direction,
                               ExitPointComputed, frames[Len(frames)].cur.fliph))
    /\ frames'[Len(frames)].exit_id = exit_id_for(cells, ExitBlock)[1]
    /\ cells' = cells

\* a hit of the exit cache on an entry, of which degree is taken to be the
\* number of hits before this one: the entries after it are removed, the
\* exit is the inf exit of that degree, and the mover goes on with the
\* entry's point and fliph, flipped if the inf exit flips
ExitHitRedirects(entry, degree) ==
    /\ Len(transfer_cache'.exit) = entry
    /\ \A i \in 1 .. (entry - 1) : transfer_cache'.exit[i] = transfer_cache.exit[i]
    /\ ValidId(cells', frames'[Len(frames)].exit_id)
    /\ is_reference(ExitUsed)
    /\ ExitUsed.target_no = ExitContextNo
    /\ ExitUsed.inf_exit = Some(degree)
    /\ Landing.fn = "try_exit"
    /\ Landing.cur.gpos = ExitUsed.gpos
    /\ Landing.cur.fliph = (transfer_cache.exit[entry].fliph # fliph(ExitUsed))
    /\ Landing.point =
          IF fliph(ExitUsed) /\ Vertical(frames[Len(frames)].cur.direction)
          THEN RatSub(ONE_POINT, transfer_cache.exit[entry].point)
          ELSE transfer_cache.exit[entry].point

\* C27 as claimed: in the cache of one mover a miss on an exit key records an
\* entry of degree 0 and uses the ordinary portal; the n-th hit on the key
\* removes the entries after its entry, redirects to the inf exit of degree
\* n - 1 and goes on with the point and fliph of the entry.
C27_NthHitOfKey ==
    [][ExitProceeds =>
          IF ExitHits = {} THEN ExitMissRecords
          ELSE ExitHitRedirects(Min(ExitHits), Cardinality(ExitHitsSoFar))]_vars

\* C27 as amended: n counts the hits on the entry since the miss that
\* recorded it, which is the degree the entry holds; the hit adds one to it.
C27_NthHitOfEntry ==
    [][ExitProceeds =>
          IF ExitHits = {} THEN ExitMissRecords
          ELSE /\ ExitHitRedirects(Min(ExitHits),
                                   transfer_cache.exit[Min(ExitHits)].degree)
               /\ transfer_cache'.exit[Min(ExitHits)] =
                     [transfer_cache.exit[Min(ExitHits)] EXCEPT !.degree = @ + 1]]_vars

\* the mover of LevelExitWeave after its last hit: one entry is left with two
\* hits on it, the other key was hit twice and removed twice
C27_Witness ==
    /\ pre.cells = LevelExitWeave.cells
    /\ Len(transfer_cache.exit) = 1 /\ transfer_cache.exit[1].degree = 2
    /\ Len(transfer_cache.exit_hits) = 4
    /\ log.inf_exit /\ log.made = 2

\* the entry of the enter cache that the mover's key hits
EnterEntry == transfer_cache.enter[Min(EnterHits)]

\* C28: when the cell met by try_enter is flipped, a miss of the enter cache
\* records the mover's fliph (degree 0) and then toggles it; a hit gives the
\* mover the fliph of the entry, untoggled, sets the enter point to 1/2 and
\* adds one to the entry's degree.
C28_ToggleOnMiss ==
    [][(EnterProceeds /\ fliph(EnterTarget)) =>
          IF EnterHits = {}
          THEN /\ Landing.cur.fliph = ~Entering.fliph
               /\ transfer_cache'.enter =
                     Append(transfer_cache.enter,
                            TransferState(EnteredBlock.block_no, EnterDirection,
                                          EnterPoint, Entering.fliph))
          ELSE /\ Landing.cur.fliph = EnterEntry.fliph
               /\ EnteredPos = EdgeMiddle(EnterDirection, Entered.width, Entered.height)
               /\ Landing.point =
                     ResidualOf(MIDDLE_POINT,
                                IF Vertical(EnterDirection) THEN Entered.width
                                ELSE Entered.height)
               /\ Len(transfer_cache'.enter) = Min(EnterHits)
               /\ transfer_cache'.enter[Min(EnterHits)].degree = EnterEntry.degree + 1
               /\ transfer_cache'.enter[Min(EnterHits)].fliph = EnterEntry.fliph]_vars

\* the player of LevelFlipSelfUp has met the flipped reference with its fliph
\* toggled by the flipped block, has hit the enter cache and is unflipped
\* again in the inf enter block made for it
C28_Witness ==
    /\ At("try_interact_pos", "start") /\ Len(frames) > 1
    /\ frames[Len(frames) - 1].fn = "try_enter"
    /\ fliph(Cell(cells, frames[Len(frames) - 1].target))
    /\ frames[Len(frames) - 1].cur.fliph
    /\ ~frames[Len(frames)].cur.fliph
    /\ log.inf_enter /\ log.made = 2
    /\ Cell(cells, frames[Len(frames)].cur.gpos.block_id).inf_enter # None
    /\ transfer_cache.enter[Len(transfer_cache.enter)].degree = 1

\* a step inside a resolution: play is not the frame on top
InResolution == status = "busy" /\ Len(frames) > 1

\* C29: a push on the move stack puts the current transfer cache on the
\* transfer stack and leaves empty exit and enter caches; no step changes a
\* cache saved below the top; a pop from the move stack takes the top of the
\* transfer stack back as the current cache; the two stacks have the same
\* length in every state.
C29_CacheFollowsMoves ==
    /\ [](Len(transfer_stack) = Len(move_stack))
    /\ [][InResolution =>
             /\ Len(move_stack') \in {Len(move_stack) - 1, Len(move_stack),
                                      Len(move_stack) + 1}
             /\ Len(move_stack') = Len(move_stack) + 1 =>
                   /\ transfer_stack' = Append(transfer_stack, transfer_cache)
                   /\ transfer_cache'.exit = <<>> /\ transfer_cache'.enter = <<>>
             /\ Len(move_stack') = Len(move_stack) =>
                   transfer_stack' = transfer_stack
             /\ Len(move_stack') = Len(move_stack) - 1 =>
                   /\ transfer_cache' = transfer_stack[Len(transfer_stack)]
                   /\ transfer_stack' = Front(transfer_stack)
                   /\ move_stack' = Front(move_stack)]_vars

\* a resolution in which a cache with entries came back by a pop, while
\* another cache with entries lies saved under two movers
C29_Witness ==
    /\ InResolution /\ log.restored
    /\ Len(move_stack) >= 2 /\ Len(transfer_stack) = Len(move_stack)
    /\ transfer_stack[2] # EmptyCache

\* Left and Right swapped, Up and Down kept
MirrorLR(d) ==
    CASE d = "Left" -> "Right"
      [] d = "Right" -> "Left"
      [] OTHER -> d

\* try_push is about to push a wall that closes no cycle, inner_push is set
\* and the wall's parent block has an exit portal
InnerPushDue ==
    /\ At("try_push", "start") /\ config.inner_push
    /\ LET f == frames[Len(frames)]
           wall == Cell(cells, f.target)
       IN  /\ is_wall(wall)
           /\ ~\E i \in move_index .. (Len(move_stack) - 1) :
                  /\ move_stack[i + 1].cell_id = f.target
                  /\ \A j \in 0 .. (i - 1) : move_stack[j + 1].cell_id # f.target
                  /\ move_stack[i + 1].direction = f.cur.direction
           /\ ValidId(cells, wall.gpos.block_id)
           /\ is_block(Cell(cells, wall.gpos.block_id))
           /\ exit_id_for(cells, Cell(cells, wall.gpos.block_id)) # None

\* C30: with inner_push set, when a pushed wall closes no cycle and its parent
\* block has an exit portal, try_push sets move_index to the length of the
\* move stack and calls try_move on that portal with the push direction,
\* Left and Right swapped when the portal has fliph; when that call fails
\* move_index gets back the value it had before and try_push returns false;
\* when it succeeds try_push returns true and the commit leaves every cell
\* alone whose record was on the stack before the inner push, the pusher's
\* included.
C30_InnerPush ==
    /\ [][InnerPushDue =>
             LET f == frames[Len(frames)]
                 wall == Cell(cells, f.target)
                 portal == exit_id_for(cells, Cell(cells, wall.gpos.block_id))[1]
                 d == IF Cell(cells, portal).fliph THEN MirrorLR(f.cur.direction)
                      ELSE f.cur.direction
             IN  /\ move_index' = Len(move_stack)
                 /\ Len(move_stack') = Len(move_stack)
                 /\ Calls(try_move_frame(portal, d))
                 /\ frames'[Len(frames)].old_move_index = move_index
                 /\ frames'[Len(frames)].k = Len(move_stack)]_vars
    /\ [][\A i \in 1 .. (Len(frames) - 1) :
             (frames[i].fn = "try_push" /\ frames[i].pc = "after_inner") =>
                 i <= Len(frames') /\ frames'[i] = frames[i]]_vars
    /\ [][At("try_push", "after_inner") =>
             IF ret = T
             THEN /\ Returns(T)
                  /\ move_index' = move_index /\ move_stack' = move_stack
                  /\ move_index >= frames[Len(frames)].k
                  /\ log'.inner_at >= frames[Len(frames)].k
             ELSE /\ Returns(F)
                  /\ move_index' = frames[Len(frames)].old_move_index]_vars
    /\ [][(TryMoveReturned(T) /\ log.inner_at # ROOT) =>
             /\ move_index >= log.inner_at
             /\ \A k \in 1 .. log.inner_at :
                   cells'[move_stack[k].cell_id + 1] = cells[move_stack[k].cell_id + 1]]_vars

\* an inner push through a mirrored block has succeeded on a press to the
\* right: the player has stayed and a cell has gone to the left
C30_Witness ==
    /\ log.result = T /\ log.inner_at # ROOT /\ log.applied > 0
    /\ log.kept >= log.inner_at
    /\ direction = "Right"
    /\ Cell(cells, Mover.id) = Mover
    /\ \E i \in CellIds(pre.cells) :
          Cell(cells, i).gpos.pos[1] < Cell(pre.cells, i).gpos.pos[1]

\* the direction a cell comes back from
Backward(d) ==
    CASE d = "Up" -> "Down"
      [] d = "Down" -> "Up"
      [] d = "Left" -> "Right"
      [] d = "Right" -> "Left"

\* C31: after the onward try_exit through an exit portal has failed: with
\* shed = false try_exit returns false and neither a record nor a cell
\* changes; with shed = true the traveller's record, the top of the move
\* stack, gets the portal's gpos and the fliph the traveller has after the
\* portal's flip, try_move is called on the portal with the direction
\* opposite to the one the traveller has after the flip, and try_exit returns
\* what that call returns.
C31_ShedRule ==
    /\ [][(At("try_exit", "start") /\ Len(frames') = Len(frames) + 1
               /\ frames'[Len(frames)].pc = "after_exit") =>
             LET caller == frames'[Len(frames)]
                 portal == Cell(cells', caller.exit_id)
             IN  /\ frames'[Len(frames')] = try_exit_frame(caller.cur,
                                                            frames'[Len(frames')].point)
                 /\ caller.cur.gpos = portal.gpos
                 /\ caller.cur.cell_id = frames[Len(frames)].cur.cell_id
                 /\ caller.cur.direction =
                        IF portal.fliph THEN MirrorLR(frames[Len(frames)].cur.direction)
                        ELSE frames[Len(frames)].cur.direction]_vars
    /\ [][(At("try_exit", "after_exit") /\ ret = F) =>
             LET f == frames[Len(frames)]
                 portal == Cell(cells, f.exit_id)
             IN  /\ cells' = cells
                 /\ move_stack[Len(move_stack)].cell_id = f.cur.cell_id
                 /\ IF ~config.shed
                    THEN Returns(F) /\ move_stack' = move_stack
                    ELSE /\ move_stack' =
                               [move_stack EXCEPT ![Len(move_stack)].gpos = portal.gpos,
                                                  ![Len(move_stack)].fliph = f.cur.fliph]
                         /\ frames' = Append([frames EXCEPT ![Len(frames)].pc = "tail"],
                                             try_move_frame(f.exit_id,
                                                            Backward(f.cur.direction)))]_vars
    /\ [][At("try_exit", "tail") => Returns(ret)]_vars

\* a shed move through a mirrored block has succeeded on a press to the
\* right: the block went to the right, against the way the player left it,
\* and the player stands where the block was
C31_Witness ==
    /\ log.result = T /\ log.shed_ok /\ config.shed
    /\ direction = "Right" /\ Cell(pre.cells, Mover.gpos.block_id).fliph
    /\ \E e \in CellIds(pre.cells) :
          /\ e # Mover.id
          /\ Cell(cells, Mover.id).gpos = Cell(pre.cells, e).gpos
          /\ Cell(cells, e).gpos.pos = go(Cell(pre.cells, e).gpos.pos, "Right")

\* the tag of an epsilon portal, None for any other cell
PortalTag(c) ==
    IF is_reference(c) /\ c.inf_exit # None THEN <<"exit", c.target_no, c.inf_exit[1]>>
    ELSE IF is_block(c) /\ c.inf_enter # None THEN <<"enter", c.inf_enter[1][1], c.inf_enter[1][2]>>
    ELSE None

\* at most one epsilon portal per tag
PortalsDistinct(cs) ==
    \A i, j \in CellIds(cs) :
        (PortalTag(Cell(cs, i)) # None /\ PortalTag(Cell(cs, i)) = PortalTag(Cell(cs, j)))
            => i = j

\* the step has added a space backdrop and, at its center, the epsilon portal
\* p, whose tag no cell had
MakesPortal(p) ==
    /\ Len(cells') = Len(cells) + 2
    /\ SubSeq(cells', 1, Len(cells)) = cells
    /\ p = Len(cells) + 1
    /\ LET backdrop == cells'[Len(cells) + 1]
           portal == cells'[Len(cells) + 2]
       IN  /\ is_block(backdrop) /\ backdrop.space /\ backdrop.id = Len(cells)
           /\ portal.id = p
           /\ portal.gpos = GlobalPos(Len(cells), SPACE_CENTER)
           /\ PortalTag(portal) # None
           /\ \A i \in CellIds(cells) : PortalTag(Cell(cells, i)) # PortalTag(portal)

\* the step has gone on with the epsilon portal p that was there, adding no cell
ReusesPortal(p) ==
    /\ cells' = cells
    /\ p \in CellIds(cells) /\ PortalTag(Cell(cells, p)) # None

\* C32: in a game loaded from a level with at most one epsilon portal per
\* tag, every state has at most one reference per (target_no, inf_exit) and at
\* most one block per inf_enter tag; a step either adds no cell or adds two, a
\* space backdrop and at its center an epsilon portal whose tag no cell had;
\* a hit of the exit cache goes on through the portal of its block_no that
\* was there, or else through one it makes, and so does a hit of the enter
\* cache.
C32_PortalsDistinct ==
    /\ [](PortalsDistinct(cells))
    /\ [][Len(cells') = Len(cells) \/ (\E p \in CellIds(cells') : MakesPortal(p))]_vars
    /\ [][(At("try_exit", "start")
               /\ Len(transfer_cache'.exit_hits) = Len(transfer_cache.exit_hits) + 1) =>
             LET p == frames'[Len(frames)].exit_id
                 hit == transfer_cache'.exit_hits[Len(transfer_cache'.exit_hits)]
             IN  /\ PortalTag(Cell(cells', p))[1] = "exit"
                 /\ Cell(cells', p).target_no = hit[1]
                 /\ IF \E i \in CellIds(cells) :
                           PortalTag(Cell(cells, i)) = PortalTag(Cell(cells', p))
                    THEN ReusesPortal(p)
                    ELSE MakesPortal(p)]_vars
    /\ [][(At("try_enter", "start") /\ Len(frames') = Len(frames) + 1 /\ status' = "busy") =>
             LET p == frames'[Len(frames')].cur.gpos.block_id
             IN  PortalTag(Cell(cells', p)) # None =>
                     IF \E i \in CellIds(cells) :
                            PortalTag(Cell(cells, i)) = PortalTag(Cell(cells', p))
                     THEN ReusesPortal(p)
                     ELSE MakesPortal(p)]_vars

\* one resolution has hit the exit cache twice: the reference of degree 0
\* that was there served the first hit, and the second made the reference of
\* degree 1 with its backdrop
C32_Witness ==
    /\ log.inf_exit /\ log.made = 2 /\ log.result # NoRet
    /\ \E i \in CellIds(pre.cells) : \E j \in CellIds(cells) \ CellIds(pre.cells) :
          /\ PortalTag(Cell(cells, i)) # None /\ PortalTag(Cell(cells, j)) # None
          /\ Cell(cells, i).inf_exit = Some(0) /\ Cell(cells, j).inf_exit = Some(1)
          /\ Cell(cells, i).target_no = Cell(cells, j).target_no
          /\ is_space(cells, Cell(cells, j).gpos.block_id)

\* cell c with the gpos and fliph of cell b
Placed(c, b) == [c EXCEPT !.gpos = b.gpos, !.fliph = b.fliph]

\* C33: no step removes or reorders cells or changes anything of a cell that
\* was there but its gpos and fliph: its variant, id, block_no, width, height,
\* filled, space, locked, possessable, target_no, exit, inf_exit and inf_enter
\* stay; cells[i].id = i for every cell in every state; no step changes the
\* goals or the config.
C33_PlayKeepsCells ==
    /\ [](\A i \in CellIds(cells) : Cell(cells, i).id = i)
    /\ [][/\ Len(cells') >= Len(cells)
          /\ \A i \in CellIds(cells) : Placed(Cell(cells', i), Cell(cells, i)) = Cell(cells, i)
          /\ goals' = goals
          /\ config' = config]_vars

\* a turn is over that made two cells and moved a cell that was there
C33_Witness ==
    /\ status = "idle" /\ turns > 0
    /\ Len(cells) > Len(pre.turn_cells)
    /\ \E i \in CellIds(pre.turn_cells) :
          Cell(cells, i).gpos # Cell(pre.turn_cells, i).gpos

\* C34: in every state, after loading and after every turn, no two blocks have
\* the same block_no: a synthesized space backdrop and a synthesized block of
\* an infinite enter have a block_no that no other block has, whether made
\* while loading (the backdrop of a floating cell) or in play.
C34_BlockNosDistinct ==
    \A i, j \in CellIds(cells) :
        (i # j /\ is_block(Cell(cells, i)) /\ is_block(Cell(cells, j)))
            => Cell(cells, i).block_no # Cell(cells, j).block_no

\* cell i lies inside a block, on a slot that no other cell of cs has
AloneOnSlot(cs, i) ==
    \A j \in CellIds(cs) : j # i => Cell(cs, j).gpos # Cell(cs, i).gpos

\* C35: between turns no two cells whose container is not the root sentinel
\* have the same gpos; the commit after a true try_move leaves every cell it
\* has placed alone on its slot, whatever made the slice: a chain of pushes,
\* a closed cycle, an eat, a shed, an inner push, a landing in a block of an
\* infinite enter or on a space backdrop.
C35_CommitKeepsSlotsApart ==
    /\ [](status = "idle" =>
             \A i \in CellIds(cells) : ~AtRoot(i) => AloneOnSlot(cells, i))
    /\ [][(TryMoveReturned(T) /\ status' # "panic") =>
             \A k \in (move_index + 1) .. Len(move_stack) :
                 /\ move_stack[k].gpos.block_id # ROOT
                 /\ Cell(cells', move_stack[k].cell_id).gpos = move_stack[k].gpos
                 /\ AloneOnSlot(cells', move_stack[k].cell_id)]_vars

\* turns are over in which a cycle was closed below a pusher that stayed, a
\* cell was eaten, or a cell came to lie on a space backdrop
C35_Witness ==
    /\ status = "idle" /\ log.result = T /\ log.applied >= 2
    /\ log.cycle

\* C36: in every state 0 <= move_index <= the length of the move stack, so
\* the slice move_stack[move_index..] that play commits after a true try_move
\* is a valid range: after a closed cycle, after a possession, and after
\* failed inner pushes whose records were popped with move_index raised.
C36_MoveIndexInRange ==
    /\ 0 <= move_index
    /\ move_index <= Len(move_stack)
    /\ TryMoveReturned(T) => commit(S).status # "panic"

\* try_move has returned true to play after an inner push had failed and its
\* records were popped: move_index is back below the length of the stack
C36_Witness ==
    /\ TryMoveReturned(T)
    /\ log.inner_push /\ log.inner_at = ROOT /\ log.blocked_at >= 3
    /\ move_index < Len(move_stack)

\* the records of ms, last first
RECURSIVE Reversed(_)
Reversed(ms) == IF ms = <<>> THEN <<>> ELSE Append(Reversed(Tail(ms)), Head(ms))

\* the frame on top is a call of try_move or try_eat
MoverCallOnTop ==
    Running /\ Len(frames) > 1 /\ frames[Len(frames)].fn \in {"try_move", "try_eat"}

\* C37: in every state the records of the move stack have pairwise distinct
\* cell ids, and the slice that play commits gives the same cells applied
\* first to last or last to first; a call of try_move or of try_eat begins
\* with the stacks as its caller left them, and when it returns false the
\* move stack and the transfer stack have the length they had when the call
\* began.
C37_StacksOfDistinctCells ==
    /\ [](\A i, j \in 1 .. Len(move_stack) :
             move_stack[i].cell_id = move_stack[j].cell_id => i = j)
    /\ [](TryMoveReturned(T) =>
             apply_all(cells, Reversed(commit_slice(move_stack, move_index)))
                = apply_all(cells, commit_slice(move_stack, move_index)))
    /\ [](Running => Len(log.bases) = Len(frames) - 1)
    /\ [][(Running /\ Len(frames') = Len(frames) + 1
               /\ frames'[Len(frames')].fn \in {"try_move", "try_eat"}
               /\ frames'[Len(frames')].pc = "start") =>
             /\ Len(move_stack') = Len(move_stack)
             /\ Len(transfer_stack') = Len(transfer_stack)
             /\ Len(transfer_stack) = Len(move_stack)
             /\ log'.bases = Append(SubSeq(log.bases, 1, Len(frames) - 1),
                                    Len(move_stack))]_vars
    /\ [][(MoverCallOnTop /\ frames' = Front(frames) /\ ret' = F) =>
             /\ Len(move_stack') = log.bases[Len(log.bases)]
             /\ Len(transfer_stack') = log.bases[Len(log.bases)]]_vars
    /\ [][(Running /\ Len(frames') <= Len(frames) + 1 /\ Len(frames') >= Len(frames) - 1
               /\ status' = "busy" /\ Len(frames') >= 1) =>
             SubSeq(log'.bases, 1, Len(frames) - 2) = SubSeq(log.bases, 1, Len(frames) - 2)]_vars

\* a try_eat that had pushed the record of its target has returned false
\* under two records, and a cell with a record has been refused again
C37_Witness ==
    /\ status = "busy" /\ ret = F
    /\ log.eat /\ ~log.eat_ok /\ log.again_err # ROOT
    /\ Len(move_stack) >= 2
    /\ Len(move_stack) = Len(transfer_stack)

====
